---- MODULE Spec2Model ----
(***************************************************************************)
(* observ-demo: the deploy and teardown pipelines of the CLI.              *)
(*                                                                         *)
(* One run of the CLI process executes one command (deploy or teardown).   *)
(* The external tools (terraform, gcloud, kubectl), the user answering     *)
(* prompts and the file system are the environment: each of their answers  *)
(* is a nondeterministic choice.  A phase function that blocks on an       *)
(* external process is split into the step that starts it and the step     *)
(* that takes its result and runs deploy_command / teardown_command up to  *)
(* the next call.                                                          *)
(***************************************************************************)
EXTENDS Integers, Sequences, FiniteSets, TLC

VARIABLES
    cmd,                  \* the command of this run: "deploy" or "teardown"
    auto_approve,         \* --auto-approve
    keep_state,           \* teardown --keep-state
    deploy_otel,          \* deploy_command(deploy_otel=...)
    deploy_microservices, \* deploy_command(deploy_microservices=...)
    notify_email,         \* number of --notify-email addresses
    notify_slack,         \* a Slack webhook URL was given
    tf_dir_exists,        \* terraform_dir.exists()
    tf_initialized,       \* (terraform_dir / ".terraform").exists()
    pc,                   \* position in deploy_command / teardown_command
    cwd,                  \* process working directory: "orig" or "terraform"
    how,                  \* how the command ended: "none", "return", "sysexit", "raise"
    exit_code,            \* the value returned / passed to sys.exit; -1 while running
    events,               \* <<"start"|"return", phase>> in the order they happened
    executed,             \* external commands spawned, in order
    prompts,              \* <<question, answer>> of every Confirm.ask, in order
    messages,             \* outcome lines printed by the command so far
    result,               \* phase -> "none" | "True" | "False": what the phase function returned
    phase_code,           \* phase -> exit code seen by the phase (-1: none)
    proc,                 \* terraform apply subprocess: "none", "running", "exited"
    returncode,           \* process.returncode of terraform apply (-1: none)
    current_progress,     \* terraform_apply local
    task_completed,       \* what the progress bar displays
    line,                 \* terraform_apply local: last line read
    outputs,              \* deploy_command local: dict from get_terraform_outputs
    k8s,                  \* fields of the KubernetesDeployer instance
    cur_phase,            \* phase whose namespace function is executing
    code,                 \* local of create_namespace / delete_namespace
    stderr,               \* local of create_namespace / delete_namespace
    emails_sent,          \* send_email calls made
    slack_result,         \* what send_slack returned: "none", "True", "False"
    w_pc,                 \* position in wait_for_pods ("idle": not called)
    w_timeout,            \* wait_for_pods(timeout=...)
    now,                  \* time.time()
    start_time,           \* wait_for_pods local
    w_code,               \* wait_for_pods local: code of the last query
    w_stdout,             \* wait_for_pods local: stdout of the last query
    poll_log,             \* per query made, whether the pods were found ready
    w_result,             \* what wait_for_pods returned: "none", "True", "False"
    i_pc,                 \* position in init_command ("idle": not called)
    tool_idx,             \* check_prerequisites: position in REQUIRED_TOOLS
    all_ok,               \* check_prerequisites local
    table,                \* check_prerequisites: <<tool, status>> rows added
    authed,               \* gcloud has an active account
    i_log,                \* steps init_command began and outcome lines it printed
    i_exit,               \* init_command: value returned / passed to sys.exit (-1: running)
    current,              \* compare_versions argument
    minimum,              \* compare_versions argument
    cmp_result,           \* what compare_versions returned: "none", "True", "False"
    c_cmd,                \* the subcommand main() was started with ("none": not modelled)
    c_pc,                 \* position in main / the click group / the subcommand
    c_step,               \* step of the command function that is executing
    c_exc,                \* exception travelling up: "none", "SystemExit", "Exception", "KeyboardInterrupt"
    c_code,               \* the code of a travelling SystemExit (-1: none)
    process_code,         \* exit code of the CLI process (-1: running)
    c_out,                \* lines printed by click and by main
    s_pc,                 \* position in status_command ("idle": not called)
    s_status,             \* check -> the "status" it returned ("none": not yet)
    s_parse_failed,       \* checks in which json.loads raised JSONDecodeError
    s_how,                \* how status_command ended: "none", "return", "raise"
    t_todo,               \* writes the terraform apply process still makes: "out" / "err"
    out_pipe,             \* lines waiting in the stdout pipe
    err_pipe,             \* lines waiting in the stderr pipe
    t_state,              \* the process: "none", "running", "exited"
    o_pc                  \* terraform_apply's position in lines 116-127

pipelineVars == <<cmd, auto_approve, keep_state, deploy_otel, deploy_microservices,
          notify_email, notify_slack, tf_dir_exists, tf_initialized, pc, cwd,
          how, exit_code, events, executed, prompts, messages, result,
          phase_code, proc, returncode, current_progress, task_completed,
          line, outputs, k8s, cur_phase, code, stderr, emails_sent,
          slack_result>>

waitVars == <<w_pc, w_timeout, now, start_time, w_code, w_stdout, poll_log,
              w_result>>

initVars == <<i_pc, tool_idx, all_ok, table, authed, i_log, i_exit>>

cmpVars == <<current, minimum, cmp_result>>

cliVars == <<c_cmd, c_pc, c_step, c_exc, c_code, process_code, c_out>>

statusVars == <<s_pc, s_status, s_parse_failed, s_how>>

pipeVars == <<t_todo, out_pipe, err_pipe, t_state, o_pc>>

vars == <<pipelineVars, waitVars, initVars, cmpVars, cliVars, statusVars,
          pipeVars>>

\* the state of the functions a pipeline command does not call
sideVars == <<waitVars, initVars, cmpVars, cliVars, statusVars, pipeVars>>

\* everything but the state of wait_for_pods
exceptWait == <<pipelineVars, initVars, cmpVars, cliVars, statusVars, pipeVars>>

\* everything but the state of init_command
exceptInit == <<pipelineVars, waitVars, cmpVars, cliVars, statusVars, pipeVars>>

\* everything but the state of compare_versions
exceptCmp == <<pipelineVars, waitVars, initVars, cliVars, statusVars, pipeVars>>

\* everything but the state of main
exceptCli == <<pipelineVars, waitVars, initVars, cmpVars, statusVars, pipeVars>>

\* everything but the state of status_command
exceptStatus == <<pipelineVars, waitVars, initVars, cmpVars, cliVars, pipeVars>>

\* everything but the pipes of terraform apply
exceptPipes == <<pipelineVars, waitVars, initVars, cmpVars, cliVars, statusVars>>

inputs == <<cmd, auto_approve, keep_state, deploy_otel, deploy_microservices,
            notify_email, notify_slack, tf_dir_exists, tf_initialized>>

applyVars == <<proc, returncode, current_progress, task_completed, line>>

nsVars == <<cur_phase, code, stderr>>

notifyVars == <<emails_sent, slack_result>>

-----------------------------------------------------------------------------
(* Bounds *)

MaxLineLen == 2      \* atoms per output line
MaxEmails == 1       \* --notify-email addresses
MaxTimeoutTicks == 3 \* wait_for_pods timeouts are 0 .. MaxTimeoutTicks poll intervals
MaxPods == 2         \* pods listed by one readiness query
MaxVersionLen == 4   \* dot-separated components of an installed version
PipeCap == 1         \* lines a pipe holds before a write to it blocks
MaxWrites == 4       \* lines the terraform apply process writes in all

-----------------------------------------------------------------------------
(* Text.  A text is a sequence of atoms; a substring test looks for an     *)
(* atom.  str.lower() maps the mixed-case atoms to their lower-case form. *)

Lower(atom) ==
    CASE atom = "GKE-Cluster" -> "gke-cluster"
      [] atom = "Already Exists" -> "already exists"
      [] OTHER -> atom

LowerText(text) == [i \in DOMAIN text |-> Lower(text[i])]

Contains(sub, text) == \E i \in DOMAIN text : text[i] = sub

Atoms == {"project-setup", "GKE-Cluster", "budget-alerts", "Creating..."}

RECURSIVE SeqsUpTo(_, _)
SeqsUpTo(S, n) ==
    IF n = 0 THEN {<<>>}
    ELSE LET shorter == SeqsUpTo(S, n - 1)
         IN  shorter \cup {Append(s, a) : s \in shorter, a \in S}

\* what process.stdout.readline() can return; <<>> is "" (end of file)
Lines == SeqsUpTo(Atoms, MaxLineLen)

-----------------------------------------------------------------------------
(* ProcessRunner: run_command / run_kubectl.  An outcome of running an     *)
(* external command is <<kind, exit code, stderr>>.                        *)

\* exit codes an external process ends with: success and two failures
ExitCodes == {0, 1, 2}

ErrAlreadyExists == <<"Error from server (AlreadyExists):", "Already Exists">>
ErrAlreadyExistsLower == <<"error:", "already exists">>
ErrNotFound == <<"Error from server (NotFound):", "not found">>
ErrOther == <<"Error:", "connection refused">>

ProcessOutcomes ==
    {<<"exit", c, IF c = 0 THEN <<>> ELSE ErrOther>> : c \in ExitCodes}
    \cup {<<"timeout", 0, <<>>>>, <<"oserror", 0, <<>>>>}

KubectlOutcomes ==
    ProcessOutcomes
    \cup {<<"exit", 1, ErrAlreadyExists>>, <<"exit", 1, ErrAlreadyExistsLower>>,
          <<"exit", 1, ErrNotFound>>}

\* TerraformDeployer.run_command / TeardownManager.run_command
run_command(o) ==
    CASE o[1] = "exit" -> [code |-> o[2], stderr |-> o[3]]
      [] o[1] = "timeout" -> [code |-> 1, stderr |-> <<"Command timed out">>]
      [] OTHER -> [code |-> 1, stderr |-> <<"str(e)">>]

\* KubernetesDeployer.run_kubectl
run_kubectl(o) ==
    CASE o[1] = "exit" -> [code |-> o[2], stderr |-> o[3]]
      [] o[1] = "timeout" -> [code |-> 1, stderr |-> <<"kubectl command timed out">>]
      [] OTHER -> [code |-> 1, stderr |-> <<"str(e)">>]

-----------------------------------------------------------------------------
(* Phases *)

DeployPhases == <<"plan", "confirm", "apply", "outputs", "configure",
                  "verify", "otel_ns", "micro_ns", "notify">>

TeardownPhases == <<"delete_otel", "delete_micro", "destroy", "state_cleanup">>

AllPhases == {DeployPhases[i] : i \in DOMAIN DeployPhases}
             \cup {TeardownPhases[i] : i \in DOMAIN TeardownPhases}

Rank(p) ==
    IF \E i \in DOMAIN DeployPhases : DeployPhases[i] = p
    THEN CHOOSE i \in DOMAIN DeployPhases : DeployPhases[i] = p
    ELSE CHOOSE i \in DOMAIN TeardownPhases : TeardownPhases[i] = p

Start(p) == <<"start", p>>
Return(p) == <<"return", p>>

\* the phases started so far, in order
Started ==
    LET starts == SelectSeq(events, LAMBDA e : e[1] = "start")
    IN  [i \in DOMAIN starts |-> starts[i][2]]

HasStarted(p) == \E i \in DOMAIN events : events[i] = Start(p)
HasReturned(p) == \E i \in DOMAIN events : events[i] = Return(p)
Executed(c) == \E i \in DOMAIN executed : executed[i] = c
Declined(q) == \E i \in DOMAIN prompts : prompts[i] = <<q, FALSE>>

-----------------------------------------------------------------------------
(* Ways a command ends *)

\* sys.exit(c) inside deploy_command's try: the finally clause restores cwd
SysExit(c) ==
    /\ pc' = "exited"
    /\ how' = "sysexit"
    /\ exit_code' = c
    /\ cwd' = "orig"

\* an exception leaves deploy_command with the finally clause missing
RaiseNoFinally ==
    /\ pc' = "exited"
    /\ how' = "raise"
    /\ exit_code' = exit_code
    /\ cwd' = cwd

\* an exception leaves deploy_command through the finally clause
Raise ==
    /\ pc' = "exited"
    /\ how' = "raise"
    /\ exit_code' = exit_code
    /\ cwd' = "orig"

\* return c
ReturnFrom(c) ==
    /\ pc' = "exited"
    /\ how' = "return"
    /\ exit_code' = c

Goto(l) ==
    /\ pc' = l
    /\ UNCHANGED <<how, exit_code, cwd>>

-----------------------------------------------------------------------------
(* Initial state *)

\* wait_for_pods is not running
WaitIdle ==
    /\ w_pc = "idle"
    /\ w_timeout = 0
    /\ now = 0
    /\ start_time = 0
    /\ w_code = -1
    /\ w_stdout = <<>>
    /\ poll_log = <<>>
    /\ w_result = "none"

\* init_command is not running
InitIdle ==
    /\ i_pc = "idle"
    /\ tool_idx = 0
    /\ all_ok = TRUE
    /\ table = <<>>
    /\ authed = FALSE
    /\ i_log = <<>>
    /\ i_exit = -1

\* compare_versions is not running
CmpIdle ==
    /\ current = <<>>
    /\ minimum = <<>>
    /\ cmp_result = "none"

\* main is not modelled
CliIdle ==
    /\ c_cmd = "none"
    /\ c_pc = "idle"
    /\ c_step = 0
    /\ c_exc = "none"
    /\ c_code = -1
    /\ process_code = -1
    /\ c_out = {}

\* status_command is not running
StatusIdle ==
    /\ s_pc = "idle"
    /\ s_status = <<>>
    /\ s_parse_failed = {}
    /\ s_how = "none"

\* the pipes of terraform apply are not looked at
PipesIdle ==
    /\ t_todo = <<>>
    /\ out_pipe = 0
    /\ err_pipe = 0
    /\ t_state = "none"
    /\ o_pc = "idle"

\* the state of a command that has not started
PipelineStart ==
    /\ pc = "start"
    /\ cwd = "orig"
    /\ how = "none"
    /\ exit_code = -1
    /\ events = <<>>
    /\ executed = <<>>
    /\ prompts = <<>>
    /\ messages = {}
    /\ result = [p \in AllPhases |-> "none"]
    /\ phase_code = [p \in AllPhases |-> -1]
    /\ proc = "none"
    /\ returncode = -1
    /\ current_progress = 0
    /\ task_completed = 0
    /\ line = <<>>
    /\ outputs = <<>>
    /\ k8s = [cluster_name |-> "-", region |-> "-", project_id |-> "-"]
    /\ cur_phase = "none"
    /\ code = -1
    /\ stderr = <<>>
    /\ emails_sent = 0
    /\ slack_result = "none"

Init ==
    /\ cmd \in {"deploy", "teardown"}
    /\ auto_approve \in BOOLEAN
    /\ tf_dir_exists \in BOOLEAN
    /\ IF cmd = "deploy"
       THEN /\ tf_initialized = tf_dir_exists
            /\ keep_state = FALSE
            /\ deploy_otel \in BOOLEAN
            /\ deploy_microservices \in BOOLEAN
            /\ notify_email \in 0 .. MaxEmails
            /\ notify_slack \in BOOLEAN
       ELSE /\ tf_initialized \in {b \in BOOLEAN : b => tf_dir_exists}
            /\ keep_state \in BOOLEAN
            /\ deploy_otel = TRUE
            /\ deploy_microservices = TRUE
            /\ notify_email = 0
            /\ notify_slack = FALSE
    /\ PipelineStart
    /\ StatusIdle
    /\ PipesIdle
    /\ WaitIdle
    /\ InitIdle
    /\ CmpIdle
    /\ CliIdle

-----------------------------------------------------------------------------
(* deploy_command *)

Log(e) == events' = Append(events, e)
Log2(e1, e2) == events' = Append(Append(events, e1), e2)
Spawn(c) == executed' = Append(executed, c)
Say(m) == messages' = messages \cup {m}
Ask(q, answer) == prompts' = Append(prompts, <<q, answer>>)
SetResult(p, b) == result' = [result EXCEPT ![p] = IF b THEN "True" ELSE "False"]
SetCode(p, c) == phase_code' = [phase_code EXCEPT ![p] = c]

\* lines 344-352: the Terraform directory check and os.chdir
DeployEnter ==
    /\ cmd = "deploy"
    /\ pc = "start"
    /\ IF ~tf_dir_exists
       THEN /\ Say("Terraform directory not found")
            /\ pc' = "exited"
            /\ how' = "sysexit"
            /\ exit_code' = 1
            /\ cwd' = cwd
       ELSE /\ pc' = "plan"
            /\ cwd' = "terraform"
            /\ UNCHANGED <<how, exit_code, messages>>
    /\ UNCHANGED <<inputs, sideVars, events, executed, prompts, result, phase_code,
                   applyVars, outputs, k8s, nsVars, notifyVars>>

\* terraform_plan up to run_command
PlanStart ==
    /\ cmd = "deploy"
    /\ pc = "plan"
    /\ Log(Start("plan"))
    /\ Spawn("terraform plan")
    /\ Goto("plan_wait")
    /\ UNCHANGED <<inputs, sideVars, prompts, messages, result, phase_code, applyVars,
                   outputs, k8s, nsVars, notifyVars>>

\* TerraformDeployer.terraform_plan: its return value
terraform_plan(o) == run_command(o).code = 0

\* line 364 with the test inverted
AfterPlanInverted == IF auto_approve THEN "confirm" ELSE "apply"

\* where deploy_command goes after a successful plan (line 364)
AfterPlan == IF ~auto_approve THEN "confirm" ELSE "apply"

\* terraform_plan returns; deploy_command lines 359-364
PlanReturn ==
    /\ pc = "plan_wait"
    /\ \E o \in ProcessOutcomes :
          /\ Log(Return("plan"))
          /\ SetResult("plan", terraform_plan(o))
          /\ SetCode("plan", run_command(o).code)
          /\ IF terraform_plan(o)
             THEN /\ Goto(AfterPlan)
                  /\ UNCHANGED messages
             ELSE /\ Say("Deployment failed at planning stage")
                  /\ SysExit(1)
    /\ UNCHANGED <<inputs, sideVars, executed, prompts, applyVars, outputs, k8s, nsVars,
                   notifyVars>>

\* line 366 with the answer ignored
ConfirmProceedsAlways(answer) == TRUE

\* line 366: deploy_command goes on exactly when Confirm.ask returned True
ConfirmProceeds(answer) == answer

\* deploy_command lines 364-368: the confirmation prompt
DeployConfirm ==
    /\ pc = "confirm"
    /\ \E answer \in BOOLEAN :
          /\ Ask("Proceed with deployment?", answer)
          /\ Log2(Start("confirm"), Return("confirm"))
          /\ SetResult("confirm", answer)
          /\ IF ConfirmProceeds(answer)
             THEN /\ Goto("apply")
                  /\ UNCHANGED messages
             ELSE /\ Say("Deployment cancelled")
                  /\ SysExit(0)
    /\ UNCHANGED <<inputs, sideVars, executed, phase_code, applyVars, outputs, k8s,
                   nsVars, notifyVars>>

-----------------------------------------------------------------------------
(* TerraformDeployer.terraform_apply *)

progress_markers == << <<"project-setup", 10>>, <<"vpc-network", 20>>,
                       <<"gke-cluster", 60>>, <<"iap-config", 75>>,
                       <<"monitoring", 85>>, <<"budget-alerts", 95>> >>

\* lines 120-122, with the guard current_progress < target_progress dropped
MarkerStepNoGuard(ln, cur, m) ==
    IF Contains(m[1], LowerText(ln)) THEN m[2] ELSE cur

\* lines 120-122: one marker against one line
MarkerStep(ln, cur, m) ==
    IF Contains(m[1], LowerText(ln)) /\ cur < m[2] THEN m[2] ELSE cur

\* lines 118-122: the for loop over progress_markers, from marker i on
RECURSIVE ScanMarkers(_, _, _)
ScanMarkers(ln, cur, i) ==
    IF i > Len(progress_markers) THEN cur
    ELSE ScanMarkers(ln, MarkerStep(ln, cur, progress_markers[i]), i + 1)

\* lines 117-122: what one observed line does to current_progress
Observe(ln, cur) == IF ln # <<>> THEN ScanMarkers(ln, cur, 1) ELSE cur

\* lines 73-103: subprocess.Popen; a spawn failure raises out of deploy_command
ApplyStart ==
    /\ pc = "apply"
    /\ Log(Start("apply"))
    /\ \E spawned \in BOOLEAN :
          IF spawned
          THEN /\ Spawn("terraform apply")
               /\ proc' = "running"
               /\ Goto("apply_loop")
          ELSE /\ Raise
               /\ UNCHANGED <<executed, proc>>
    /\ current_progress' = 0
    /\ task_completed' = 0
    /\ UNCHANGED <<inputs, sideVars, prompts, messages, result, phase_code, returncode,
                   line, outputs, k8s, nsVars, notifyVars>>

\* the terraform process ends
ProcExit ==
    /\ proc = "running"
    /\ proc' = "exited"
    /\ returncode' \in ExitCodes
    /\ UNCHANGED <<inputs, sideVars, pc, cwd, how, exit_code, events, executed, prompts,
                   messages, result, phase_code, current_progress,
                   task_completed, line, outputs, k8s, nsVars, notifyVars>>

\* lines 116-123: one iteration of the monitoring loop
ApplyIterate ==
    /\ pc = "apply_loop"
    /\ proc = "running"
    /\ \E ln \in Lines :
          /\ line' = ln
          /\ current_progress' = Observe(ln, current_progress)
          /\ task_completed' = IF Observe(ln, current_progress) # current_progress
                               THEN Observe(ln, current_progress)
                               ELSE task_completed
    /\ UNCHANGED <<inputs, sideVars, pc, cwd, how, exit_code, events, executed, prompts,
                   messages, result, phase_code, proc, returncode, outputs,
                   k8s, nsVars, notifyVars>>

\* lines 129-136 with the exit code ignored
terraform_apply_ignoring(rc) == TRUE

\* lines 129-136 with completion also read off the inferred progress
terraform_apply_by_progress(rc) == rc = 0 /\ current_progress > 0

\* lines 129-136: the return value of terraform_apply
terraform_apply(rc) == rc = 0

\* lines 116, 126-136: the loop ends, communicate(), progress set to 100,
\* and the value terraform_apply is about to return
ApplyCommunicate ==
    /\ pc = "apply_loop"
    /\ proc = "exited"
    /\ task_completed' = 100
    /\ SetResult("apply", terraform_apply(returncode))
    /\ SetCode("apply", returncode)
    /\ Goto("apply_ret")
    /\ UNCHANGED <<inputs, sideVars, events, executed, prompts, messages, proc,
                   returncode, current_progress, line, outputs, k8s, nsVars,
                   notifyVars>>

\* terraform_apply returns; deploy_command lines 371-373
ApplyReturn ==
    /\ pc = "apply_ret"
    /\ Log(Return("apply"))
    /\ IF result["apply"] = "True"
       THEN /\ Goto("outputs")
            /\ UNCHANGED messages
       ELSE /\ Say("Infrastructure deployment failed")
            /\ SysExit(1)
    /\ proc' = "none"
    /\ returncode' = -1
    /\ current_progress' = 0
    /\ task_completed' = 0
    /\ line' = <<>>
    /\ UNCHANGED <<inputs, sideVars, executed, prompts, result, phase_code, outputs, k8s,
                   nsVars, notifyVars>>

-----------------------------------------------------------------------------
(* TerraformDeployer.get_terraform_outputs and deploy_command lines 375-384 *)

OutKeys == {"cluster_name", "project_id", "region"}

\* the value Terraform reports for an output; an output may also be ""
TfValue(k) ==
    CASE k = "cluster_name" -> "demo-cluster"
      [] k = "project_id" -> "demo-project"
      [] OTHER -> "europe-west1"

\* the objects `terraform output -json` can print: name -> {"value": v}
JsonObjects ==
    UNION {{[k \in S |-> [value |-> f[k]]] :
               f \in {g \in [S -> {"", "demo-cluster", "demo-project", "europe-west1"}] :
                         \A k \in S : g[k] \in {"", TfValue(k)}}} :
           S \in SUBSET OutKeys}

\* stdout of `terraform output -json`: valid JSON or not
TfStdouts == {[valid |-> TRUE, obj |-> j] : j \in JsonObjects}
             \cup {[valid |-> FALSE, obj |-> <<>>]}

\* lines 138-152
get_terraform_outputs(o, stdout) ==
    IF run_command(o).code = 0
    THEN IF stdout.valid
         THEN [k \in DOMAIN stdout.obj |-> stdout.obj[k].value]
         ELSE <<>>
    ELSE <<>>

\* dict.get(k, default)
Get(d, k, default) == IF k \in DOMAIN d THEN d[k] ELSE default

\* line 379 with the default dropped: a missing region reads as ""
RegionOfNoDefault(outs) == Get(outs, "region", "")

\* line 379
RegionOf(outs) == Get(outs, "region", "us-central1")

\* lines 377-381: not cluster_name or not project_id
MissingClusterInfo(outs) ==
    \/ Get(outs, "cluster_name", "") = ""
    \/ Get(outs, "project_id", "") = ""

OutputsStart ==
    /\ pc = "outputs"
    /\ Log(Start("outputs"))
    /\ Spawn("terraform output")
    /\ Goto("outputs_wait")
    /\ UNCHANGED <<inputs, sideVars, prompts, messages, result, phase_code, applyVars,
                   outputs, k8s, nsVars, notifyVars>>

\* get_terraform_outputs returns; deploy_command lines 376-387
OutputsReturn ==
    /\ pc = "outputs_wait"
    /\ \E o \in ProcessOutcomes, stdout \in TfStdouts :
          LET outs == get_terraform_outputs(o, stdout)
          IN  /\ outputs' = outs
              /\ Log(Return("outputs"))
              /\ SetCode("outputs", run_command(o).code)
              /\ IF MissingClusterInfo(outs)
                 THEN /\ Say("Could not retrieve cluster information from Terraform outputs")
                      /\ SysExit(1)
                      /\ k8s' = k8s
                 ELSE /\ k8s' = [cluster_name |-> Get(outs, "cluster_name", ""),
                                 region |-> RegionOf(outs),
                                 project_id |-> Get(outs, "project_id", "")]
                      /\ Goto("configure")
                      /\ UNCHANGED messages
    /\ UNCHANGED <<inputs, sideVars, executed, prompts, result, applyVars, nsVars,
                   notifyVars>>

-----------------------------------------------------------------------------
(* KubernetesDeployer.configure_kubectl and verify_cluster_access *)

ConfigureStart ==
    /\ pc = "configure"
    /\ Log(Start("configure"))
    /\ Spawn("gcloud container clusters get-credentials")
    /\ Goto("configure_wait")
    /\ UNCHANGED <<inputs, sideVars, prompts, messages, result, phase_code, applyVars,
                   outputs, k8s, nsVars, notifyVars>>

\* lines 191-201: a timeout or an invocation error is caught and gives False
configure_kubectl(o) == o[1] = "exit" /\ o[2] = 0

\* configure_kubectl returns; deploy_command lines 389-391
ConfigureReturn ==
    /\ pc = "configure_wait"
    /\ \E o \in ProcessOutcomes :
          /\ Log(Return("configure"))
          /\ SetResult("configure", configure_kubectl(o))
          /\ SetCode("configure", IF o[1] = "exit" THEN o[2] ELSE -1)
          /\ IF configure_kubectl(o)
             THEN /\ Goto("verify")
                  /\ UNCHANGED messages
             ELSE /\ Say("Failed to configure kubectl access")
                  /\ SysExit(1)
    /\ UNCHANGED <<inputs, sideVars, executed, prompts, applyVars, outputs, k8s, nsVars,
                   notifyVars>>

VerifyStart ==
    /\ pc = "verify"
    /\ Log(Start("verify"))
    /\ Spawn("kubectl get nodes")
    /\ Goto("verify_wait")
    /\ UNCHANGED <<inputs, sideVars, prompts, messages, result, phase_code, applyVars,
                   outputs, k8s, nsVars, notifyVars>>

\* lines 203-215
verify_cluster_access(o) == run_kubectl(o).code = 0

\* verify_cluster_access returns; deploy_command lines 393-400
VerifyReturn ==
    /\ pc = "verify_wait"
    /\ \E o \in ProcessOutcomes :
          /\ Log(Return("verify"))
          /\ SetResult("verify", verify_cluster_access(o))
          /\ SetCode("verify", run_kubectl(o).code)
          /\ IF verify_cluster_access(o)
             THEN /\ Goto("otel")
                  /\ UNCHANGED messages
             ELSE /\ Say("Cannot access cluster")
                  /\ SysExit(1)
    /\ UNCHANGED <<inputs, sideVars, executed, prompts, applyVars, outputs, k8s, nsVars,
                   notifyVars>>

-----------------------------------------------------------------------------
(* KubernetesDeployer.create_namespace, called for the two workloads *)

\* deploy_command line 400-402
OtelPhase ==
    /\ pc = "otel"
    /\ IF deploy_otel
       THEN /\ Log(Start("otel_ns"))
            /\ Spawn("kubectl create namespace --dry-run")
            /\ cur_phase' = "otel_ns"
            /\ Goto("ns_dry")
       ELSE /\ Goto("micro")
            /\ UNCHANGED <<events, executed, cur_phase>>
    /\ UNCHANGED <<inputs, sideVars, prompts, messages, result, phase_code, applyVars,
                   outputs, k8s, code, stderr, notifyVars>>

\* deploy_command line 406-408
MicroPhase ==
    /\ pc = "micro"
    /\ IF deploy_microservices
       THEN /\ Log(Start("micro_ns"))
            /\ Spawn("kubectl create namespace --dry-run")
            /\ cur_phase' = "micro_ns"
            /\ Goto("ns_dry")
       ELSE /\ Goto("notify")
            /\ UNCHANGED <<events, executed, cur_phase>>
    /\ UNCHANGED <<inputs, sideVars, prompts, messages, result, phase_code, applyVars,
                   outputs, k8s, code, stderr, notifyVars>>

\* where deploy_command continues after create_namespace(phase's namespace)
AfterNamespace(p) == IF p = "otel_ns" THEN "micro" ELSE "notify"

\* lines 235-240 with the final `return True` written as `return False`
create_namespace_strict(c, err) ==
    c = 0 \/ Contains("already exists", LowerText(err))

\* lines 235-240: the value create_namespace returns after the direct create
create_namespace_direct(c, err) ==
    IF c = 0 \/ Contains("already exists", LowerText(err)) THEN TRUE ELSE TRUE

\* create_namespace returns b to deploy_command, which ignores the value
NamespaceReturns(b) ==
    /\ Log(Return(cur_phase))
    /\ SetResult(cur_phase, b)
    /\ Goto(AfterNamespace(cur_phase))

\* lines 219-226: the dry run returns
NsDryRun ==
    /\ pc = "ns_dry"
    /\ \E o \in KubectlOutcomes :
          /\ code' = run_kubectl(o).code
          /\ stderr' = run_kubectl(o).stderr
          /\ IF run_kubectl(o).code = 0
             THEN /\ Spawn("kubectl apply -f -")
                  /\ Goto("ns_apply")
             ELSE /\ Spawn("kubectl get namespace")
                  /\ Goto("ns_get")
    /\ UNCHANGED <<inputs, sideVars, events, prompts, messages, result, phase_code,
                   applyVars, outputs, k8s, cur_phase, notifyVars>>

\* lines 224-228: the apply returns
NsApply ==
    /\ pc = "ns_apply"
    /\ \E o \in KubectlOutcomes :
          /\ code' = run_kubectl(o).code
          /\ stderr' = run_kubectl(o).stderr
    /\ Spawn("kubectl get namespace")
    /\ Goto("ns_get")
    /\ UNCHANGED <<inputs, sideVars, events, prompts, messages, result, phase_code,
                   applyVars, outputs, k8s, cur_phase, notifyVars>>

\* lines 228-234: the get returns
NsGet ==
    /\ pc = "ns_get"
    /\ \E o \in KubectlOutcomes :
          /\ code' = run_kubectl(o).code
          /\ IF run_kubectl(o).code = 0
             THEN /\ NamespaceReturns(TRUE)
                  /\ UNCHANGED executed
             ELSE /\ Spawn("kubectl create namespace")
                  /\ Goto("ns_create")
                  /\ UNCHANGED <<events, result>>
    /\ UNCHANGED <<inputs, sideVars, prompts, messages, phase_code, applyVars, outputs,
                   k8s, cur_phase, stderr, notifyVars>>

\* lines 234-240: the direct create returns
NsCreate ==
    /\ pc = "ns_create"
    /\ \E o \in KubectlOutcomes :
          /\ code' = run_kubectl(o).code
          /\ stderr' = run_kubectl(o).stderr
          /\ NamespaceReturns(create_namespace_direct(run_kubectl(o).code,
                                                      run_kubectl(o).stderr))
          /\ IF run_kubectl(o).code = 0
                \/ Contains("already exists", LowerText(run_kubectl(o).stderr))
             THEN UNCHANGED messages
             ELSE Say("Namespace issue")
    /\ UNCHANGED <<inputs, sideVars, executed, prompts, phase_code, applyVars, outputs,
                   k8s, cur_phase, notifyVars>>

-----------------------------------------------------------------------------
(* Notifications and the success summary *)

\* line 413 with the e-mail addresses left out of the test
NotifyWantedSlackOnly(n_email, n_slack) == n_slack

\* line 413: if notify_email or notify_slack
NotifyWanted(n_email, n_slack) == n_email > 0 \/ n_slack

\* deploy_command lines 413-441, up to the Slack request
NotifyPhase ==
    /\ pc = "notify"
    /\ IF NotifyWanted(notify_email, notify_slack)
       THEN /\ emails_sent' = notify_email
            /\ IF notify_slack
               THEN /\ Log(Start("notify"))
                    /\ Spawn("POST slack webhook")
                    /\ Goto("notify_slack")
               ELSE /\ Log2(Start("notify"), Return("notify"))
                    /\ Goto("summary")
                    /\ UNCHANGED executed
       ELSE /\ Goto("summary")
            /\ UNCHANGED <<events, executed, emails_sent>>
    /\ UNCHANGED <<inputs, sideVars, prompts, messages, result, phase_code, applyVars,
                   outputs, k8s, nsVars, slack_result>>

SlackOutcomes == {"200", "500", "exception"}

\* NotificationService.send_slack lines 299-315
send_slack(o) == o = "200"

\* lines 440-443 with a failed Slack request ending the command
AfterSlackStrict(sent) == IF sent THEN "summary" ELSE "notify_failed"

\* lines 440-443: the value of send_slack is dropped, the summary follows
AfterSlack(sent) == "summary"

NotifySlack ==
    /\ pc = "notify_slack"
    /\ \E o \in SlackOutcomes :
          /\ slack_result' = IF send_slack(o) THEN "True" ELSE "False"
          /\ Goto(AfterSlack(send_slack(o)))
    /\ Log(Return("notify"))
    /\ UNCHANGED <<inputs, sideVars, executed, prompts, messages, result, phase_code,
                   applyVars, outputs, k8s, nsVars, emails_sent>>

\* deploy_command lines 443-460
DeploySummary ==
    /\ cmd = "deploy"
    /\ pc = "summary"
    /\ Say("Deployment Complete")
    /\ ReturnFrom(0)
    /\ cwd' = "orig"
    /\ UNCHANGED <<inputs, sideVars, events, executed, prompts, result, phase_code,
                   applyVars, outputs, k8s, nsVars, notifyVars>>

-----------------------------------------------------------------------------
(* teardown_command *)

\* teardown_command lines 163-168
TeardownEnter ==
    /\ cmd = "teardown"
    /\ pc = "start"
    /\ IF ~auto_approve
       THEN \E answer \in BOOLEAN :
               /\ Ask("Proceed with teardown?", answer)
               /\ IF answer
                  THEN /\ Goto("t_delete_otel")
                       /\ UNCHANGED messages
                  ELSE /\ Say("Teardown cancelled")
                       /\ ReturnFrom(0)
                       /\ cwd' = cwd
       ELSE /\ Goto("t_delete_otel")
            /\ UNCHANGED <<prompts, messages>>
    /\ UNCHANGED <<inputs, sideVars, events, executed, result, phase_code, applyVars,
                   outputs, k8s, nsVars, notifyVars>>

\* teardown_command lines 175-176 and delete_namespace lines 46-51
DeleteNsStart ==
    /\ pc \in {"t_delete_otel", "t_delete_micro"}
    /\ LET p == IF pc = "t_delete_otel" THEN "delete_otel" ELSE "delete_micro"
       IN  /\ Log(Start(p))
           /\ cur_phase' = p
    /\ Spawn("kubectl get namespace")
    /\ Goto("t_ns_get")
    /\ UNCHANGED <<inputs, sideVars, prompts, messages, result, phase_code, applyVars,
                   outputs, k8s, code, stderr, notifyVars>>

\* where teardown_command continues after delete_namespace, whatever it returned
AfterDelete(p) == IF p = "delete_otel" THEN "t_delete_micro" ELSE "t_destroy"

\* lines 53-55 returning False for a namespace that is not there
delete_namespace_missing_fails == FALSE

\* lines 53-55: what delete_namespace returns when the get fails
delete_namespace_missing == TRUE

\* lines 60-65: what delete_namespace returns after the delete
delete_namespace_deleted(c) == c = 0

DeleteReturns(b) ==
    /\ Log(Return(cur_phase))
    /\ SetResult(cur_phase, b)
    /\ Goto(AfterDelete(cur_phase))

\* delete_namespace lines 51-58: the existence check returns
DeleteNsGet ==
    /\ pc = "t_ns_get"
    /\ \E o \in KubectlOutcomes :
          /\ code' = run_command(o).code
          /\ stderr' = run_command(o).stderr
          /\ SetCode(cur_phase, run_command(o).code)
          /\ IF run_command(o).code # 0
             THEN /\ Say("Namespace not found, skipping")
                  /\ DeleteReturns(delete_namespace_missing)
                  /\ UNCHANGED executed
             ELSE /\ Spawn("kubectl delete namespace")
                  /\ Goto("t_ns_delete")
                  /\ UNCHANGED <<events, result, messages>>
    /\ UNCHANGED <<inputs, sideVars, prompts, applyVars, outputs, k8s, cur_phase,
                   notifyVars>>

\* delete_namespace lines 58-65: the delete returns
DeleteNsDelete ==
    /\ pc = "t_ns_delete"
    /\ \E o \in KubectlOutcomes :
          /\ code' = run_command(o).code
          /\ stderr' = run_command(o).stderr
          /\ DeleteReturns(delete_namespace_deleted(run_command(o).code))
          /\ IF run_command(o).code = 0
             THEN UNCHANGED messages
             ELSE Say("Failed to delete namespace")
    /\ UNCHANGED <<inputs, sideVars, executed, prompts, phase_code, applyVars, outputs,
                   k8s, cur_phase, notifyVars>>

\* line 83 without the prompt: destroy runs unasked
NeedsDestroyPromptNever == FALSE

\* line 83
NeedsDestroyPrompt == ~auto_approve

\* terraform_destroy lines 67-103, up to run_command
DestroyEnter ==
    /\ pc = "t_destroy"
    /\ \/ /\ ~tf_dir_exists \/ ~tf_initialized
          /\ Say(IF ~tf_dir_exists THEN "Terraform directory not found, skipping"
                 ELSE "Terraform not initialized, skipping")
          /\ Log2(Start("destroy"), Return("destroy"))
          /\ SetResult("destroy", TRUE)
          /\ Goto("t_cleanup")
          /\ UNCHANGED <<prompts, executed>>
       \/ /\ tf_dir_exists /\ tf_initialized
          /\ NeedsDestroyPrompt
          /\ \E answer \in BOOLEAN :
                /\ Ask("Are you absolutely sure you want to destroy all infrastructure?",
                       answer)
                /\ IF answer
                   THEN /\ Log(Start("destroy"))
                        /\ Spawn("terraform destroy")
                        /\ Goto("t_destroy_wait")
                        /\ UNCHANGED <<messages, result>>
                   ELSE /\ messages' = messages \cup
                               {"Terraform destroy cancelled",
                                "Teardown failed at Terraform destroy phase"}
                        /\ Log2(Start("destroy"), Return("destroy"))
                        /\ SetResult("destroy", FALSE)
                        /\ ReturnFrom(1)
                        /\ cwd' = cwd
                        /\ UNCHANGED executed
       \/ /\ tf_dir_exists /\ tf_initialized
          /\ ~NeedsDestroyPrompt
          /\ Log(Start("destroy"))
          /\ Spawn("terraform destroy")
          /\ Goto("t_destroy_wait")
          /\ UNCHANGED <<prompts, messages, result>>
    /\ UNCHANGED <<inputs, sideVars, phase_code, applyVars, outputs, k8s, nsVars,
                   notifyVars>>

\* lines 107-114: the return value of terraform_destroy after the command ran
terraform_destroy(o) == run_command(o).code = 0

\* line 183 with the result ignored: teardown goes on after a failed destroy
AfterDestroyIgnoring(ok) == "t_cleanup"

\* teardown_command lines 183-192: where it continues after terraform_destroy
AfterDestroy(ok) == IF ok THEN "t_cleanup" ELSE "exited"

\* terraform_destroy lines 103-114 and teardown_command lines 183-190
DestroyReturn ==
    /\ pc = "t_destroy_wait"
    /\ \E o \in ProcessOutcomes :
          /\ Log(Return("destroy"))
          /\ SetResult("destroy", terraform_destroy(o))
          /\ SetCode("destroy", run_command(o).code)
          /\ IF AfterDestroy(terraform_destroy(o)) = "exited"
             THEN /\ Say("Teardown failed at Terraform destroy phase")
                  /\ ReturnFrom(1)
                  /\ cwd' = cwd
             ELSE /\ Goto(AfterDestroy(terraform_destroy(o)))
                  /\ UNCHANGED messages
    /\ UNCHANGED <<inputs, sideVars, executed, prompts, applyVars, outputs, k8s, nsVars,
                   notifyVars>>

\* cleanup_state_bucket lines 116-135, called at teardown_command line 197
StateCleanup ==
    /\ pc = "t_cleanup"
    /\ Log2(Start("state_cleanup"), Return("state_cleanup"))
    /\ SetResult("state_cleanup", TRUE)
    /\ IF keep_state
       THEN /\ Say("Keeping Terraform state bucket")
            /\ UNCHANGED prompts
       ELSE \E answer \in BOOLEAN :
               /\ Ask("Delete Terraform state bucket?", answer)
               /\ messages' = messages \cup
                      {"State Bucket Deletion",
                       IF answer THEN "State bucket deletion not yet implemented"
                       ELSE "State bucket preserved"}
    /\ Goto("summary")
    /\ UNCHANGED <<inputs, sideVars, executed, phase_code, applyVars, outputs, k8s,
                   nsVars, notifyVars>>

\* teardown_command lines 199-225
TeardownSummary ==
    /\ cmd = "teardown"
    /\ pc = "summary"
    /\ Say("Teardown Completed Successfully")
    /\ ReturnFrom(0)
    /\ cwd' = cwd
    /\ UNCHANGED <<inputs, sideVars, events, executed, prompts, result, phase_code,
                   applyVars, outputs, k8s, nsVars, notifyVars>>

-----------------------------------------------------------------------------
(* Specification *)

Next ==
    \/ DeployEnter \/ PlanStart \/ PlanReturn \/ DeployConfirm
    \/ ApplyStart \/ ProcExit \/ ApplyIterate \/ ApplyCommunicate \/ ApplyReturn
    \/ OutputsStart \/ OutputsReturn
    \/ ConfigureStart \/ ConfigureReturn \/ VerifyStart \/ VerifyReturn
    \/ OtelPhase \/ MicroPhase \/ NsDryRun \/ NsApply \/ NsGet \/ NsCreate
    \/ NotifyPhase \/ NotifySlack \/ DeploySummary
    \/ TeardownEnter \/ DeleteNsStart \/ DeleteNsGet \/ DeleteNsDelete
    \/ DestroyEnter \/ DestroyReturn \/ StateCleanup \/ TeardownSummary

Spec == Init /\ [][Next]_vars

\* the steps the program itself takes: every step but the exit of the
\* terraform apply process, which is up to that process
ProgramNext ==
    \/ DeployEnter \/ PlanStart \/ PlanReturn \/ DeployConfirm
    \/ ApplyStart \/ ApplyIterate \/ ApplyCommunicate \/ ApplyReturn
    \/ OutputsStart \/ OutputsReturn
    \/ ConfigureStart \/ ConfigureReturn \/ VerifyStart \/ VerifyReturn
    \/ OtelPhase \/ MicroPhase \/ NsDryRun \/ NsApply \/ NsGet \/ NsCreate
    \/ NotifyPhase \/ NotifySlack \/ DeploySummary
    \/ TeardownEnter \/ DeleteNsStart \/ DeleteNsGet \/ DeleteNsDelete
    \/ DestroyEnter \/ DestroyReturn \/ StateCleanup \/ TeardownSummary

\* the program keeps running while it can take a step; subprocess.run calls
\* end by themselves or by their timeout, the Popen process need not end
FairSpec == Spec /\ WF_vars(ProgramNext)

-----------------------------------------------------------------------------
(* KubernetesDeployer.wait_for_pods, deploy.py lines 258-279.  Time is in  *)
(* whole seconds.  The output of the query is a text of atoms: the pod     *)
(* statuses, separated by " ", possibly ended by a newline.                *)

PollInterval == 10      \* time.sleep(10)
KubectlTimeout == 300   \* subprocess.run(..., timeout=300) in run_kubectl

\* the timeout argument
Timeouts == {PollInterval * k : k \in 0 .. MaxTimeoutTicks}

\* how long a kubectl call that ends by itself takes
QueryDurations == {0, 5}

\* the Ready-condition statuses one query lists
PodStatuses == SeqsUpTo({"True", "False"}, MaxPods)

IsSpace(a) == a \in {" ", "\n"}

\* the jsonpath output: the statuses separated by single spaces
RECURSIVE Join(_)
Join(ss) ==
    IF Len(ss) <= 1 THEN ss ELSE <<Head(ss), " ">> \o Join(Tail(ss))

\* str.strip()
RECURSIVE Strip(_)
Strip(t) ==
    IF t = <<>> THEN t
    ELSE IF IsSpace(Head(t)) THEN Strip(Tail(t))
    ELSE IF IsSpace(t[Len(t)]) THEN Strip(SubSeq(t, 1, Len(t) - 1))
    ELSE t

\* str.split(): the words between whitespace (every status is one atom)
Split(t) == SelectSeq(t, LAMBDA a : ~IsSpace(a))

\* what the pod query can end with: <<kind, exit code, stderr, raw stdout>>
PodQueryOutcomes ==
    {<<"exit", 0, <<>>, Join(ss) \o nl>> :
        ss \in PodStatuses, nl \in {<<>>, <<"\n">>}}
    \cup {<<"exit", c, ErrOther, <<>>>> : c \in ExitCodes \ {0}}
    \cup {<<"exit", 1, ErrOther, <<"True">>>>}
    \cup {<<"timeout", 0, <<>>, <<>>>>, <<"oserror", 0, <<>>, <<>>>>}

\* run_kubectl lines 174, 176, 178: the stdout it returns
kubectl_stdout(o) == IF o[1] = "exit" THEN Strip(o[4]) ELSE <<>>

\* run_kubectl with the "except Exception" clause missing
run_kubectl_raises_oserror(o) == o[1] = "oserror"

\* run_kubectl lines 175-178: both except clauses return, nothing propagates
run_kubectl_raises(o) == FALSE

\* seconds the call blocks
DurationsOf(o) ==
    IF o[1] = "timeout" THEN {KubectlTimeout} ELSE QueryDurations

\* line 263 with <= for <
LoopContinuesInclusive(t, st, to) == t - st <= to

\* line 263: while time.time() - start_time < timeout
LoopContinues(t, st, to) == t - st < to

AllTrue(words) == \A i \in DOMAIN words : words[i] = "True"

\* lines 270-272 without the "and stdout" test
PodsReadyVacuous(c, out) == c = 0 /\ AllTrue(Split(out))

\* lines 270-272: if code == 0 and stdout: ... all(s == "True" ...)
PodsReady(c, out) == c = 0 /\ out # <<>> /\ AllTrue(Split(out))

\* lines 272-276 with the return on readiness missing
AfterQueryKeepsPolling(ready) == IF ready THEN "sleep" ELSE "sleep"

\* lines 272-276: return True when ready, otherwise sleep and go round
AfterQuery(ready) == IF ready THEN "done" ELSE "sleep"

\* line 262
WaitEnter ==
    /\ w_pc = "call"
    /\ start_time' = now
    /\ w_pc' = "check"
    /\ UNCHANGED <<exceptWait, w_timeout, now, w_code, w_stdout, poll_log,
                   w_result>>

\* line 263 and, when the loop ends, lines 278-279
WaitCheck ==
    /\ w_pc = "check"
    /\ IF LoopContinues(now, start_time, w_timeout)
       THEN w_pc' = "query" /\ UNCHANGED w_result
       ELSE w_pc' = "done" /\ w_result' = "False"
    /\ UNCHANGED <<exceptWait, w_timeout, now, start_time, w_code, w_stdout,
                   poll_log>>

\* lines 264-274: one query and the test of its result
WaitQuery ==
    /\ w_pc = "query"
    /\ \E o \in PodQueryOutcomes : \E d \in DurationsOf(o) :
          /\ now' = now + d
          /\ IF run_kubectl_raises(o)
             THEN /\ w_pc' = "raised"
                  /\ UNCHANGED <<w_code, w_stdout, poll_log, w_result>>
             ELSE LET c == run_kubectl(o).code
                      out == kubectl_stdout(o)
                  IN  /\ w_code' = c
                      /\ w_stdout' = out
                      /\ poll_log' = Append(poll_log, PodsReady(c, out))
                      /\ w_pc' = AfterQuery(PodsReady(c, out))
                      /\ w_result' = IF PodsReady(c, out) THEN "True"
                                     ELSE w_result
    /\ UNCHANGED <<exceptWait, w_timeout, start_time>>

\* line 276
WaitSleep ==
    /\ w_pc = "sleep"
    /\ now' = now + PollInterval
    /\ w_pc' = "check"
    /\ UNCHANGED <<exceptWait, w_timeout, start_time, w_code, w_stdout,
                   poll_log, w_result>>

\* a call of wait_for_pods on its own: no command is running
InitWait ==
    /\ cmd = "none"
    /\ auto_approve = FALSE
    /\ keep_state = FALSE
    /\ deploy_otel = FALSE
    /\ deploy_microservices = FALSE
    /\ notify_email = 0
    /\ notify_slack = FALSE
    /\ tf_dir_exists = FALSE
    /\ tf_initialized = FALSE
    /\ PipelineStart
    /\ StatusIdle
    /\ PipesIdle
    /\ w_pc = "call"
    /\ w_timeout \in Timeouts
    /\ now \in {0, 3}
    /\ start_time = 0
    /\ w_code = -1
    /\ w_stdout = <<>>
    /\ poll_log = <<>>
    /\ w_result = "none"
    /\ InitIdle
    /\ CmpIdle
    /\ CliIdle

NextWait == WaitEnter \/ WaitCheck \/ WaitQuery \/ WaitSleep

SpecWait == InitWait /\ [][NextWait]_vars

\* seconds since wait_for_pods began
Elapsed == now - start_time

Polls == Len(poll_log)

EverReady == \E i \in DOMAIN poll_log : poll_log[i]

-----------------------------------------------------------------------------
(* PrerequisiteChecker.compare_versions, init.py lines 89-97.  A version   *)
(* string is the sequence of its dot-separated components, each a string.  *)

\* int(x) for the component strings that are numerals
IntOf ==
    [c \in {"0", "1", "2", "6", "10", "28", "450"} |->
        CASE c = "0" -> 0 [] c = "1" -> 1 [] c = "2" -> 2 [] c = "6" -> 6
          [] c = "10" -> 10 [] c = "28" -> 28 [] OTHER -> 450]

\* int(x) raises ValueError
IsNumeral(c) == c \in DOMAIN IntOf

\* components a version string is made of here; "x" is not a numeral
Components == {"0", "2", "10", "x"}

\* version strings: str.split(".") never gives an empty list
Versions(C, n) == SeqsUpTo(C, n) \ {<<>>}

\* the [:3] slice
Take3(v) == SubSeq(v, 1, IF Len(v) < 3 THEN Len(v) ELSE 3)

\* Python's >= on lists of integers: the first differing position decides,
\* and of two lists one of which begins the other the longer is greater
RECURSIVE ListGE(_, _)
ListGE(a, b) ==
    IF b = <<>> THEN TRUE
    ELSE IF a = <<>> THEN FALSE
    ELSE IF Head(a) # Head(b) THEN Head(a) > Head(b)
    ELSE ListGE(Tail(a), Tail(b))

Ints(v) == [i \in DOMAIN v |-> IntOf[v[i]]]

AllNumerals(v) == \A i \in DOMAIN v : IsNumeral(v[i])

\* lines 92-97
compare_versions(cur, min) ==
    IF AllNumerals(Take3(cur)) /\ AllNumerals(Take3(min))
    THEN ListGE(Ints(Take3(cur)), Ints(Take3(min)))
    ELSE FALSE

\* one call of compare_versions
CompareVersions ==
    /\ cmp_result = "none"
    /\ current # <<>>
    /\ cmp_result' = IF compare_versions(current, minimum) THEN "True"
                     ELSE "False"
    /\ UNCHANGED <<exceptCmp, current, minimum>>

\* a call of compare_versions on its own, on any two version strings
InitCmp ==
    /\ cmd = "none"
    /\ auto_approve = FALSE
    /\ keep_state = FALSE
    /\ deploy_otel = FALSE
    /\ deploy_microservices = FALSE
    /\ notify_email = 0
    /\ notify_slack = FALSE
    /\ tf_dir_exists = FALSE
    /\ tf_initialized = FALSE
    /\ PipelineStart
    /\ StatusIdle
    /\ PipesIdle
    /\ WaitIdle
    /\ InitIdle
    /\ CliIdle
    /\ current \in Versions(Components, MaxVersionLen)
    /\ minimum \in Versions(Components \ {"10"}, 3)
    /\ cmp_result = "none"

NextCmp == CompareVersions

SpecCmp == InitCmp /\ [][NextCmp]_vars

-----------------------------------------------------------------------------
(* init_command, init.py lines 291-473 *)

\* PrerequisiteChecker.REQUIRED_TOOLS, in the order of the dict
REQUIRED_TOOLS ==
    << [tool |-> "gcloud", min_version |-> <<"450", "0", "0">>],
       [tool |-> "terraform", min_version |-> <<"1", "6", "0">>],
       [tool |-> "kubectl", min_version |-> <<"1", "28", "0">>] >>

\* get_tool_version returned None
NoVersion == <<>>

\* what get_tool_version can return for a tool whose minimum is min: nothing,
\* the minimum, an older version, a newer one, the minimum written short
InstalledVersions(min) ==
    {NoVersion, min, <<"0", "0", "0">>, <<"450", "10", "0">>, <<min[1], min[2]>>}

\* how a process started by PrerequisiteChecker.run_command ends
InitOutcomes ==
    {<<"exit", c>> : c \in ExitCodes}
    \cup {<<"timeout", 0>>, <<"notfound", 0>>, <<"oserror", 0>>}

\* PrerequisiteChecker.run_command lines 41-54: the code it returns.  With
\* capture_output=False result.stdout is None, so result.stdout.strip()
\* raises AttributeError, which the last except clause turns into code 1.
init_run_command(o, capture_output) ==
    IF o[1] = "exit" /\ capture_output THEN o[2] ELSE 1

\* check_tool_installed
check_tool_installed(o) == init_run_command(o, TRUE) = 0

\* lines 118-125: the status column of the row added for an installed tool
VersionStatus(v, min) ==
    IF v # NoVersion /\ compare_versions(v, min) THEN "OK" ELSE "Update needed"

ILog(e) == i_log' = Append(i_log, e)

IExit(c) == i_pc' = "exited" /\ i_exit' = c

\* init_command lines 314-321
InitBegin ==
    /\ i_pc = "call"
    /\ i_pc' = "prereq"
    /\ tool_idx' = 1
    /\ ILog("Step 1")
    /\ UNCHANGED <<exceptInit, all_ok, table, authed, i_exit>>

\* check_prerequisites lines 110-125: one round of the loop over the tools
InitCheckTool ==
    /\ i_pc = "prereq"
    /\ tool_idx <= Len(REQUIRED_TOOLS)
    /\ LET t == REQUIRED_TOOLS[tool_idx]
       IN  \E o \in InitOutcomes :
              IF ~check_tool_installed(o)
              THEN /\ table' = Append(table, <<t.tool, "Missing">>)
                   /\ all_ok' = FALSE
              ELSE \E v \in InstalledVersions(t.min_version) :
                      /\ table' = Append(table,
                                     <<t.tool, VersionStatus(v, t.min_version)>>)
                      /\ UNCHANGED all_ok
    /\ tool_idx' = tool_idx + 1
    /\ UNCHANGED <<exceptInit, i_pc, authed, i_log, i_exit>>

\* check_prerequisites lines 127-128 and init_command lines 322-329
InitPrereqDone ==
    /\ i_pc = "prereq"
    /\ tool_idx > Len(REQUIRED_TOOLS)
    /\ IF ~all_ok
       THEN /\ ILog("Prerequisites check failed")
            /\ IExit(1)
       ELSE /\ ILog("Step 2")
            /\ i_pc' = "auth"
            /\ UNCHANGED i_exit
    /\ UNCHANGED <<exceptInit, tool_idx, all_ok, table, authed>>

\* check_gcloud_auth and init_command lines 332-334
InitCheckAuth ==
    /\ i_pc = "auth"
    /\ \E active \in BOOLEAN :
          /\ authed' = active
          /\ IF active
             THEN i_pc' = "adc" /\ UNCHANGED i_log
             ELSE i_pc' = "prompt_auth" /\ ILog("Not authenticated with gcloud")
    /\ UNCHANGED <<exceptInit, tool_idx, all_ok, table, i_exit>>

\* prompt_authentication lines 153-174: the answers to its two questions and
\* the ends of the two login processes give its value
prompt_authentication(a1, o1, a2, o2) ==
    IF a1 /\ init_run_command(o1, FALSE) # 0 THEN FALSE
    ELSE IF a2 /\ init_run_command(o2, FALSE) # 0 THEN FALSE
    ELSE TRUE

\* init_command lines 343-345
AuthVerified ==
    /\ i_log' = i_log \o <<"GCP authentication verified", "Step 3">>
    /\ i_pc' = "project"

\* prompt_authentication called at line 335 or line 341, and what
\* init_command does with its value
InitPromptAuthentication ==
    /\ i_pc \in {"prompt_auth", "prompt_adc"}
    /\ \E a1 \in BOOLEAN, o1 \in InitOutcomes, a2 \in BOOLEAN, o2 \in InitOutcomes :
          /\ authed' = (authed \/ (a1 /\ o1 = <<"exit", 0>>))
          /\ IF prompt_authentication(a1, o1, a2, o2)
             THEN /\ IF i_pc = "prompt_auth"
                     THEN i_pc' = "adc" /\ UNCHANGED i_log
                     ELSE AuthVerified
                  /\ UNCHANGED i_exit
             ELSE /\ ILog("Authentication failed")
                  /\ IExit(1)
    /\ UNCHANGED <<exceptInit, tool_idx, all_ok, table>>

\* check_application_default_credentials and init_command lines 338-345
InitCheckAdc ==
    /\ i_pc = "adc"
    /\ \E o \in InitOutcomes, answer \in BOOLEAN :
          IF init_run_command(o, TRUE) # 0 /\ answer
          THEN i_pc' = "prompt_adc" /\ UNCHANGED i_log
          ELSE AuthVerified
    /\ UNCHANGED <<exceptInit, tool_idx, all_ok, table, authed, i_exit>>

\* init_command lines 347-376: the project
InitProject ==
    /\ i_pc = "project"
    /\ \E o \in InitOutcomes :
          IF init_run_command(o, TRUE) # 0
          THEN /\ ILog("Project not found or not accessible")
               /\ IExit(1)
          ELSE /\ i_log' = i_log \o <<"Project found", "Step 4">>
               /\ i_pc' = "billing"
               /\ UNCHANGED i_exit
    /\ UNCHANGED <<exceptInit, tool_idx, all_ok, table, authed>>

\* init_command lines 378-396: the billing account; no outcome ends init
InitBilling ==
    /\ i_pc = "billing"
    /\ i_pc' = "terraform"
    /\ UNCHANGED <<exceptInit, tool_idx, all_ok, table, authed, i_log, i_exit>>

\* init_command lines 398-419: Terraform init and validate
InitTerraform ==
    /\ i_pc = "terraform"
    /\ \E skip_terraform \in BOOLEAN, dir_exists \in BOOLEAN,
          o_init \in InitOutcomes, o_validate \in InitOutcomes :
          IF skip_terraform
          THEN /\ ILog("Step 6") /\ i_pc' = "config" /\ UNCHANGED i_exit
          ELSE IF ~dir_exists
          THEN /\ i_log' = i_log \o <<"Step 5", "Terraform directory not found">>
               /\ IExit(1)
          ELSE IF init_run_command(o_init, TRUE) # 0
          THEN /\ i_log' = i_log \o <<"Step 5", "Terraform initialization failed">>
               /\ IExit(1)
          ELSE IF init_run_command(o_validate, TRUE) # 0
          THEN /\ i_log' = i_log \o <<"Step 5", "Terraform validation failed">>
               /\ IExit(1)
          ELSE /\ i_log' = i_log \o <<"Step 5", "Step 6">>
               /\ i_pc' = "config"
               /\ UNCHANGED i_exit
    /\ UNCHANGED <<exceptInit, tool_idx, all_ok, table, authed>>

\* init_command lines 421-473: the configuration file and the summary
InitConfig ==
    /\ i_pc = "config"
    /\ \E write \in BOOLEAN :
          i_log' = i_log \o
                     <<IF write THEN "Configuration saved"
                       ELSE "Using existing configuration",
                       "Initialization Complete">>
    /\ IExit(0)
    /\ UNCHANGED <<exceptInit, tool_idx, all_ok, table, authed>>

\* a run of init_command
InitInit ==
    /\ cmd = "none"
    /\ auto_approve = FALSE
    /\ keep_state = FALSE
    /\ deploy_otel = FALSE
    /\ deploy_microservices = FALSE
    /\ notify_email = 0
    /\ notify_slack = FALSE
    /\ tf_dir_exists = FALSE
    /\ tf_initialized = FALSE
    /\ PipelineStart
    /\ StatusIdle
    /\ PipesIdle
    /\ WaitIdle
    /\ CmpIdle
    /\ CliIdle
    /\ i_pc = "call"
    /\ tool_idx = 0
    /\ all_ok = TRUE
    /\ table = <<>>
    /\ authed = FALSE
    /\ i_log = <<>>
    /\ i_exit = -1

NextInit ==
    \/ InitBegin \/ InitCheckTool \/ InitPrereqDone \/ InitCheckAuth
    \/ InitPromptAuthentication \/ InitCheckAdc \/ InitProject \/ InitBilling
    \/ InitTerraform \/ InitConfig

SpecInit == InitInit /\ [][NextInit]_vars

-----------------------------------------------------------------------------
(* main, cli.py lines 552-561, around the click group and one subcommand.  *)
(* The command function is reduced to the steps it goes through and the    *)
(* ways it ends; a KeyboardInterrupt can arrive at any step.               *)

Subcommands == {"init", "deploy", "teardown", "status"}

\* steps of the command functions
StepsOf(c) ==
    CASE c = "deploy" -> Len(DeployPhases)
      [] c = "teardown" -> Len(TeardownPhases)
      [] c = "init" -> 6
      [] OTHER -> 4

\* how a command function can end before its last step: sys.exit(code), or
\* an exception
EarlyEnds(c) ==
    CASE c = "deploy" ->
             {<<"SystemExit", 0>>, <<"SystemExit", 1>>, <<"Exception", -1>>}
      [] c = "teardown" -> {<<"SystemExit", 0>>, <<"SystemExit", 1>>}
      [] c = "init" -> {<<"SystemExit", 1>>}
      [] OTHER -> {}

\* records the exception leaving a frame
Throw(e) == c_exc' = e[1] /\ c_code' = e[2]

\* click's BaseCommand.main in standalone mode, entered by cli(obj={}): a
\* KeyboardInterrupt is turned into Abort, for which it prints "Aborted!"
\* and calls sys.exit(1); SystemExit and other exceptions pass through
click_main(e) ==
    IF e[1] = "KeyboardInterrupt" THEN <<"SystemExit", 1>> ELSE e

\* lines 553-554
CliMain ==
    /\ c_pc = "main"
    /\ c_pc' = "click"
    /\ UNCHANGED <<exceptCli, c_cmd, c_step, c_exc, c_code, process_code, c_out>>

\* the click group invokes the subcommand, which calls its command function
CliDispatch ==
    /\ c_pc = "click"
    /\ c_pc' = "running"
    /\ c_step' = 1
    /\ UNCHANGED <<exceptCli, c_cmd, c_exc, c_code, process_code, c_out>>

\* the command function goes on to its next step
CliStep ==
    /\ c_pc = "running"
    /\ c_step < StepsOf(c_cmd)
    /\ c_step' = c_step + 1
    /\ UNCHANGED <<exceptCli, c_cmd, c_pc, c_exc, c_code, process_code, c_out>>

\* the command function ends at a failed or declined step
CliEarlyEnd ==
    /\ c_pc = "running"
    /\ \E e \in EarlyEnds(c_cmd) : Throw(e)
    /\ c_pc' = "in_click"
    /\ UNCHANGED <<exceptCli, c_cmd, c_step, process_code, c_out>>

\* the command function returns 0 after its last step and the subcommand
\* passes the value to sys.exit (lines 92, 254, 297, 546)
CliReturn ==
    /\ c_pc = "running"
    /\ c_step = StepsOf(c_cmd)
    /\ Throw(<<"SystemExit", 0>>)
    /\ c_pc' = "in_click"
    /\ UNCHANGED <<exceptCli, c_cmd, c_step, process_code, c_out>>

\* the user presses Ctrl-C while the command function runs
CliInterrupt ==
    /\ c_pc = "running"
    /\ Throw(<<"KeyboardInterrupt", -1>>)
    /\ c_pc' = "in_click"
    /\ UNCHANGED <<exceptCli, c_cmd, c_step, process_code, c_out>>

\* the exception passes through the click group
CliClick ==
    /\ c_pc = "in_click"
    /\ Throw(click_main(<<c_exc, c_code>>))
    /\ c_out' = IF c_exc = "KeyboardInterrupt" THEN c_out \cup {"Aborted!"}
                ELSE c_out
    /\ c_pc' = "in_main"
    /\ UNCHANGED <<exceptCli, c_cmd, c_step, process_code>>

\* lines 555-561: the except clauses of main, and the end of the process
CliMainExcept ==
    /\ c_pc = "in_main"
    /\ CASE c_exc = "KeyboardInterrupt" ->
               /\ process_code' = 130
               /\ c_out' = c_out \cup {"Operation cancelled by user."}
         [] c_exc = "Exception" ->
               /\ process_code' = 1
               /\ c_out' = c_out \cup {"Error:"}
         [] OTHER ->
               /\ process_code' = c_code
               /\ UNCHANGED c_out
    /\ c_pc' = "exited"
    /\ UNCHANGED <<exceptCli, c_cmd, c_step, c_exc, c_code>>

\* one run of the CLI process with a subcommand
InitCli ==
    /\ cmd = "none"
    /\ auto_approve = FALSE
    /\ keep_state = FALSE
    /\ deploy_otel = FALSE
    /\ deploy_microservices = FALSE
    /\ notify_email = 0
    /\ notify_slack = FALSE
    /\ tf_dir_exists = FALSE
    /\ tf_initialized = FALSE
    /\ PipelineStart
    /\ StatusIdle
    /\ PipesIdle
    /\ WaitIdle
    /\ InitIdle
    /\ CmpIdle
    /\ c_cmd \in Subcommands
    /\ c_pc = "main"
    /\ c_step = 0
    /\ c_exc = "none"
    /\ c_code = -1
    /\ process_code = -1
    /\ c_out = {}

NextCli ==
    \/ CliMain \/ CliDispatch \/ CliStep \/ CliEarlyEnd \/ CliReturn
    \/ CliInterrupt \/ CliClick \/ CliMainExcept

SpecCli == InitCli /\ [][NextCli]_vars

-----------------------------------------------------------------------------
(* status_command and StatusChecker, status.py lines 28-359 *)

\* no pipeline command is running
NoCommand ==
    /\ cmd = "none"
    /\ auto_approve = FALSE
    /\ keep_state = FALSE
    /\ deploy_otel = FALSE
    /\ deploy_microservices = FALSE
    /\ notify_email = 0
    /\ notify_slack = FALSE
    /\ tf_dir_exists = FALSE
    /\ tf_initialized = FALSE
    /\ PipelineStart

\* how a process started by StatusChecker.run_command ends
StatusOutcomes == {<<"exit", c>> : c \in ExitCodes} \cup {<<"timeout", 0>>}

\* StatusChecker.run_command lines 33-45: the code it returns
status_run_command(o) == IF o[1] = "exit" THEN o[2] ELSE 1

\* what the stdout of a command is for json.loads and the .get calls after
\* it: not JSON (JSONDecodeError), a JSON object, or JSON of another type
\* (AttributeError at .get, caught nowhere)
JsonKinds == {"invalid", "object", "nonobject"}

\* check_terraform_status lines 52-89; "raise" when an exception leaves it
check_terraform_status(dir_exists, initialized, o, j) ==
    IF ~dir_exists THEN "not_found"
    ELSE IF ~initialized THEN "not_initialized"
    ELSE IF status_run_command(o) = 0
    THEN CASE j = "object" -> "deployed"
           [] j = "invalid" -> "unknown"
           [] OTHER -> "raise"
    ELSE "error"

\* check_gke_cluster lines 96-146
check_gke_cluster(o_ctx, o_info, o_nodes, j) ==
    IF status_run_command(o_ctx) # 0 THEN "not_configured"
    ELSE IF status_run_command(o_info) # 0 THEN "not_accessible"
    ELSE IF status_run_command(o_nodes) = 0 /\ j = "object" THEN "healthy"
    ELSE IF status_run_command(o_nodes) = 0 /\ j = "nonobject" THEN "raise"
    ELSE "unknown"

\* check_namespace_resources lines 151-215
check_namespace_resources(o_ns, o_pods, j_pods, o_svc, j_svc) ==
    IF status_run_command(o_ns) # 0 THEN "not_found"
    ELSE IF status_run_command(o_pods) # 0 THEN "error"
    ELSE CASE j_pods = "invalid" -> "error"
           [] j_pods = "nonobject" -> "raise"
           [] OTHER ->
                IF status_run_command(o_svc) # 0 THEN "deployed"
                ELSE CASE j_svc = "invalid" -> "error"
                       [] j_svc = "nonobject" -> "raise"
                       [] OTHER -> "deployed"

\* get_service_endpoints lines 219-252: "empty" is [], "listed" a list that
\* may hold endpoints
get_service_endpoints(o, j) ==
    IF status_run_command(o) # 0 THEN "empty"
    ELSE CASE j = "invalid" -> "empty"
           [] j = "nonobject" -> "raise"
           [] OTHER -> "listed"

\* records what check k gave and goes on, or leaves status_command with the
\* exception
StatusGot(k, v, nxt) ==
    IF v = "raise"
    THEN /\ s_pc' = "exited" /\ s_how' = "raise" /\ UNCHANGED s_status
    ELSE /\ s_pc' = nxt
         /\ s_status' = s_status @@ (k :> v)
         /\ UNCHANGED s_how

\* status_command lines 291-293
StatusTerraform ==
    /\ s_pc = "terraform"
    /\ \E dir_exists \in BOOLEAN, initialized \in BOOLEAN,
          o \in StatusOutcomes, j \in JsonKinds :
          /\ StatusGot("terraform",
                       check_terraform_status(dir_exists, initialized, o, j), "gke")
          /\ s_parse_failed' =
                IF dir_exists /\ initialized /\ status_run_command(o) = 0
                   /\ j = "invalid"
                THEN s_parse_failed \cup {"terraform"} ELSE s_parse_failed
    /\ UNCHANGED exceptStatus

\* status_command lines 295-297
StatusGke ==
    /\ s_pc = "gke"
    /\ \E o_ctx \in {<<"exit", 0>>, <<"exit", 1>>},
          o_info \in {<<"exit", 0>>, <<"exit", 1>>},
          o_nodes \in StatusOutcomes, j \in JsonKinds :
          /\ StatusGot("gke", check_gke_cluster(o_ctx, o_info, o_nodes, j), "otel")
          /\ s_parse_failed' =
                IF /\ status_run_command(o_ctx) = 0
                   /\ status_run_command(o_info) = 0
                   /\ status_run_command(o_nodes) = 0
                   /\ j = "invalid"
                THEN s_parse_failed \cup {"gke"} ELSE s_parse_failed
    /\ UNCHANGED exceptStatus

\* status_command lines 299-302 and 311-314
StatusNamespace ==
    /\ s_pc \in {"otel", "micro"}
    /\ \E o_ns \in {<<"exit", 0>>, <<"exit", 1>>}, o_pods \in StatusOutcomes,
          j_pods \in JsonKinds, o_svc \in {<<"exit", 0>>, <<"exit", 1>>},
          j_svc \in JsonKinds :
          /\ StatusGot(s_pc,
                       check_namespace_resources(o_ns, o_pods, j_pods, o_svc, j_svc),
                       IF s_pc = "otel" THEN "otel_endpoints"
                       ELSE "micro_endpoints")
          /\ s_parse_failed' =
                IF /\ status_run_command(o_ns) = 0
                   /\ status_run_command(o_pods) = 0
                   /\ \/ j_pods = "invalid"
                      \/ /\ j_pods = "object"
                         /\ status_run_command(o_svc) = 0
                         /\ j_svc = "invalid"
                THEN s_parse_failed \cup {s_pc} ELSE s_parse_failed
    /\ UNCHANGED exceptStatus

\* status_command lines 304-309 and 316-321
StatusEndpoints ==
    /\ s_pc \in {"otel_endpoints", "micro_endpoints"}
    /\ \E o \in StatusOutcomes, j \in JsonKinds :
          /\ StatusGot(s_pc, get_service_endpoints(o, j),
                       IF s_pc = "otel_endpoints" THEN "micro" ELSE "summary")
          /\ s_parse_failed' =
                IF status_run_command(o) = 0 /\ j = "invalid"
                THEN s_parse_failed \cup {s_pc} ELSE s_parse_failed
    /\ UNCHANGED exceptStatus

\* status_command lines 323-358
StatusSummary ==
    /\ s_pc = "summary"
    /\ s_pc' = "exited"
    /\ s_how' = "return"
    /\ UNCHANGED <<exceptStatus, s_status, s_parse_failed>>

\* a run of status_command
InitStatus ==
    /\ NoCommand
    /\ WaitIdle /\ InitIdle /\ CmpIdle /\ CliIdle /\ PipesIdle
    /\ s_pc = "terraform"
    /\ s_status = <<>>
    /\ s_parse_failed = {}
    /\ s_how = "none"

NextStatus ==
    \/ StatusTerraform \/ StatusGke \/ StatusNamespace \/ StatusEndpoints
    \/ StatusSummary

SpecStatus == InitStatus /\ [][NextStatus]_vars

-----------------------------------------------------------------------------
(* terraform_apply and its subprocess, deploy.py lines 96-127: the two     *)
(* pipes.  The process writes its lines, each to stdout or to stderr, and  *)
(* exits; a write to a full pipe blocks.  terraform_apply reads one stdout *)
(* line per round of its loop and reads stderr only in communicate().      *)

\* the process writes its next line, if the pipe has room for it
ProcWrite ==
    /\ t_state = "running"
    /\ t_todo # <<>>
    /\ \/ /\ Head(t_todo) = "out"
          /\ out_pipe < PipeCap
          /\ out_pipe' = out_pipe + 1
          /\ UNCHANGED err_pipe
       \/ /\ Head(t_todo) = "err"
          /\ err_pipe < PipeCap
          /\ err_pipe' = err_pipe + 1
          /\ UNCHANGED out_pipe
    /\ t_todo' = Tail(t_todo)
    /\ UNCHANGED <<exceptPipes, t_state, o_pc>>

\* the process has written everything and exits, closing its ends
ProcEnd ==
    /\ t_state = "running"
    /\ t_todo = <<>>
    /\ t_state' = "exited"
    /\ UNCHANGED <<exceptPipes, t_todo, out_pipe, err_pipe, o_pc>>

\* line 116: while process.poll() is None
PipePoll ==
    /\ o_pc = "poll"
    /\ o_pc' = IF t_state = "running" THEN "readline" ELSE "communicate"
    /\ UNCHANGED <<exceptPipes, t_todo, out_pipe, err_pipe, t_state>>

\* lines 117-123: readline() returns when a line is there or the process
\* has closed stdout, and blocks until then; then the sleep
PipeReadline ==
    /\ o_pc = "readline"
    /\ out_pipe > 0 \/ t_state = "exited"
    /\ out_pipe' = IF out_pipe > 0 THEN out_pipe - 1 ELSE out_pipe
    /\ o_pc' = "poll"
    /\ UNCHANGED <<exceptPipes, t_todo, err_pipe, t_state>>

\* lines 126-127: communicate() reads both pipes to their end
PipeCommunicate ==
    /\ o_pc = "communicate"
    /\ out_pipe' = 0
    /\ err_pipe' = 0
    /\ o_pc' = "returned"
    /\ UNCHANGED <<exceptPipes, t_todo, t_state>>

\* terraform_apply has just started a process that writes any lines
InitPipes ==
    /\ NoCommand
    /\ WaitIdle /\ InitIdle /\ CmpIdle /\ CliIdle /\ StatusIdle
    /\ t_todo \in SeqsUpTo({"out", "err"}, MaxWrites)
    /\ out_pipe = 0
    /\ err_pipe = 0
    /\ t_state = "running"
    /\ o_pc = "poll"

NextPipes ==
    ProcWrite \/ ProcEnd \/ PipePoll \/ PipeReadline \/ PipeCommunicate

SpecPipes == InitPipes /\ [][NextPipes]_vars

\* the process and terraform_apply both go on whenever they can
FairSpecPipes == SpecPipes /\ WF_vars(NextPipes)

-----------------------------------------------------------------------------
(* Helpers of the properties *)

StartsOf(p) == Cardinality({i \in DOMAIN events : events[i] = Start(p)})
TimesExecuted(c) == Cardinality({i \in DOMAIN executed : executed[i] = c})
LastStarted == Started[Len(Started)]

\* every start follows a return (or is the first event), every return follows
\* the start of its own phase, and the starts come in strictly rising rank
InOrder ==
    \A i \in DOMAIN events :
       /\ events[i][1] = "start" =>
             /\ i = 1 \/ events[i - 1][1] = "return"
             /\ \A j \in 1 .. (i - 1) :
                   events[j][1] = "start" => Rank(events[j][2]) < Rank(events[i][2])
       /\ events[i][1] = "return" =>
             /\ i > 1
             /\ events[i - 1] = Start(events[i][2])

\* the deploy phases that no flag switches off
MandatoryBefore(p) ==
    {q \in {"plan", "apply", "outputs", "configure", "verify"} : Rank(q) < Rank(p)}

AbortPhases == {"plan", "apply", "configure", "verify"}

\* the line deploy_command prints when an abort-policy phase failed
FailureMessage(p) ==
    CASE p = "plan" -> "Deployment failed at planning stage"
      [] p = "apply" -> "Infrastructure deployment failed"
      [] p = "configure" -> "Failed to configure kubectl access"
      [] OTHER -> "Cannot access cluster"

FailureMessages == {FailureMessage(p) : p \in AbortPhases}

DestroyFailureMessage == "Teardown failed at Terraform destroy phase"

DeployPrompt == "Proceed with deployment?"
TeardownPrompt == "Proceed with teardown?"
DestroyPrompt == "Are you absolutely sure you want to destroy all infrastructure?"

Confirmed(q) == \E i \in DOMAIN prompts : prompts[i] = <<q, TRUE>>

-----------------------------------------------------------------------------
(* Properties *)

\* C1: in every run of deploy_command the phases start in the declared order
\* plan, confirm (only when auto_approve is false), apply, outputs, configure,
\* verify, OpenTelemetry namespace, microservices namespace, notify; a phase
\* starts only after the previous one returned, none starts twice, and a phase
\* starts only after every earlier phase that no flag switches off returned.
C1_DeployPhaseOrder ==
    cmd = "deploy" =>
       /\ InOrder
       /\ \A i \in DOMAIN events :
             \E k \in DOMAIN DeployPhases : DeployPhases[k] = events[i][2]
       /\ HasStarted("confirm") => ~auto_approve
       /\ (HasStarted("apply") /\ ~auto_approve) => HasReturned("confirm")
       /\ \A p \in AllPhases :
             HasStarted(p) => \A q \in MandatoryBefore(p) : HasReturned(q)

\* a complete run without auto-approve started all nine phases, in order
C1_Witness ==
    /\ cmd = "deploy"
    /\ pc = "exited"
    /\ how = "return"
    /\ Started = DeployPhases

\* C2: when an abort-policy phase of deploy (plan, apply, configure, verify)
\* ends with a non-zero exit code, deploy exits with code 1, the failed phase
\* is the last one started, it ran once, and the failure line printed is the
\* one of that phase; after a failed apply no later command is ever spawned.
C2_AbortOnFailure ==
    /\ \A p \in AbortPhases :
          (HasReturned(p) /\ phase_code[p] > 0) =>
             /\ pc = "exited"
             /\ how = "sysexit"
             /\ exit_code = 1
             /\ LastStarted = p
             /\ events[Len(events)] = Return(p)
             /\ StartsOf(p) = 1
             /\ messages \cap FailureMessages = {FailureMessage(p)}
    /\ phase_code["apply"] > 0 =>
          /\ TimesExecuted("terraform apply") = 1
          /\ executed[Len(executed)] = "terraform apply"
          /\ ~HasStarted("outputs") /\ ~HasStarted("configure")
          /\ ~HasStarted("otel_ns") /\ ~HasStarted("micro_ns")
          /\ ~HasStarted("notify")

\* terraform apply ended with exit code 1 and the pipeline is over
C2_Witness ==
    /\ phase_code["apply"] = 1
    /\ result["apply"] = "False"
    /\ pc = "exited"

\* C3: terraform destroy is executed only if auto_approve is set or the user
\* confirmed (both the teardown prompt and the destroy prompt); when destroy
\* is spawned no prompt has been declined.
C3_DestroyNeedsConfirmation ==
    /\ Executed("terraform destroy") =>
          \/ auto_approve
          \/ Confirmed(TeardownPrompt) /\ Confirmed(DestroyPrompt)
    /\ pc = "t_destroy_wait" =>
          \A i \in DOMAIN prompts : prompts[i][2] = TRUE

\* destroy was executed in a run without auto-approve
C3_Witness ==
    /\ Executed("terraform destroy")
    /\ ~auto_approve
    /\ Confirmed(DestroyPrompt)

\* C4: when the user declines the deploy confirmation, deploy stops through
\* sys.exit(0) with the cancellation line and no failure line, and terraform
\* apply and the later phases never run.
C4_DeclineIsNotAnError ==
    Declined(DeployPrompt) =>
       /\ pc = "exited"
       /\ how = "sysexit"
       /\ exit_code = 0
       /\ "Deployment cancelled" \in messages
       /\ messages \cap FailureMessages = {}
       /\ LastStarted = "confirm"
       /\ ~Executed("terraform apply")
       /\ executed = <<"terraform plan">>

\* the plan succeeded and the user answered no
C4_Witness ==
    /\ Declined(DeployPrompt)
    /\ result["plan"] = "True"
    /\ ~auto_approve

\* C5: when the user declines a teardown prompt (the teardown prompt or the
\* destroy prompt), teardown_command ends with 0 and prints no failure of the
\* Terraform destroy phase.
C5_TeardownDeclineIsNotAnError ==
    (pc = "exited" /\ (Declined(TeardownPrompt) \/ Declined(DestroyPrompt))) =>
       /\ exit_code = 0
       /\ DestroyFailureMessage \notin messages

\* C6: teardown runs delete-namespace(opentelemetry),
\* delete-namespace(microservices-demo), terraform destroy, state cleanup in
\* that order; whatever the namespace deletions return both are attempted and
\* terraform_destroy is still called; a failed terraform destroy ends teardown
\* with 1 and state cleanup never runs.
C6_TeardownOrder ==
    cmd = "teardown" =>
       /\ InOrder
       /\ \A i \in DOMAIN events :
             \E k \in DOMAIN TeardownPhases : TeardownPhases[k] = events[i][2]
       /\ HasStarted("delete_micro") => HasReturned("delete_otel")
       /\ HasStarted("destroy") => HasReturned("delete_micro")
       /\ HasStarted("state_cleanup") =>
             HasReturned("destroy") /\ result["destroy"] = "True"
       /\ HasReturned("delete_otel") =>
             pc = "t_delete_micro" \/ HasStarted("delete_micro")
       /\ HasReturned("delete_micro") =>
             pc = "t_destroy" \/ HasStarted("destroy")
       /\ result["destroy"] = "False" =>
             /\ pc = "exited"
             /\ how = "return"
             /\ exit_code = 1
             /\ ~HasStarted("state_cleanup")
             /\ LastStarted = "destroy"

\* both namespace deletions failed, destroy ran and failed with a non-zero exit
C6_Witness ==
    /\ result["delete_otel"] = "False"
    /\ result["delete_micro"] = "False"
    /\ Executed("terraform destroy")
    /\ phase_code["destroy"] > 0
    /\ result["destroy"] = "False"
    /\ pc = "exited"

\* delete_namespace(p) has just returned because its existence check failed
\* with a "not found" error
NotFoundCase(p) ==
    /\ cur_phase = p
    /\ HasReturned(p)
    /\ pc = AfterDelete(p)
    /\ phase_code[p] # 0
    /\ Contains("not found", LowerText(stderr))

\* C7 as stated: a namespace deletion that gets "not found" is marked Failed
\* (delete_namespace returns False) and the pipeline proceeds to destroy.
C7_NotFoundMarkedFailed ==
    \A p \in {"delete_otel", "delete_micro"} :
       NotFoundCase(p) => result[p] = "False"

\* C7 (amended): a namespace deletion whose existence check gets "not found"
\* is skipped and counts as success (delete_namespace returns True without
\* running the delete), and the pipeline proceeds to terraform destroy.
C7_NotFoundIsSuccess ==
    /\ \A p \in {"delete_otel", "delete_micro"} :
          NotFoundCase(p) =>
             /\ result[p] = "True"
             /\ "Namespace not found, skipping" \in messages
             /\ executed[Len(executed)] = "kubectl get namespace"
    /\ (\E p \in {"delete_otel", "delete_micro"} :
           HasReturned(p) /\ phase_code[p] # 0 /\ result[p] = "True") =>
          \/ pc \in {"t_delete_micro", "t_ns_get", "t_ns_delete", "t_destroy"}
          \/ HasStarted("destroy")

\* the second namespace was not found and destroy is next
C7_Witness ==
    /\ NotFoundCase("delete_micro")
    /\ stderr = ErrNotFound
    /\ pc = "t_destroy"

\* C8: create_namespace never returns False, whatever the kubectl commands
\* returned, and once it returned deploy_command goes on to the next phase
\* and can only end with the success summary.
C8_CreateNamespaceContinues ==
    \A p \in {"otel_ns", "micro_ns"} :
       /\ result[p] # "False"
       /\ HasReturned(p) =>
             /\ result[p] = "True"
             /\ pc \in {"micro", "ns_dry", "ns_apply", "ns_get", "ns_create",
                        "notify", "notify_slack", "summary", "exited"}
             /\ pc = "exited" => (how = "return" /\ exit_code = 0)
             /\ (pc = "exited" /\ deploy_microservices) => HasReturned("micro_ns")

\* the direct create failed with "already exists" and the next phase is up
C8_Witness ==
    /\ cur_phase = "otel_ns"
    /\ HasReturned("otel_ns")
    /\ code # 0
    /\ stderr = ErrAlreadyExists
    /\ result["otel_ns"] = "True"
    /\ pc = "micro"

\* the direct create failed with another error and the next phase is up
C8_WitnessOtherError ==
    /\ cur_phase = "micro_ns"
    /\ HasReturned("micro_ns")
    /\ code # 0
    /\ stderr = ErrOther
    /\ "Namespace issue" \in messages
    /\ pc = "notify"

\* the values configure_kubectl was given all come from the Terraform outputs
FromOutputs ==
    /\ \A k \in OutKeys : k \in DOMAIN outputs
    /\ k8s.cluster_name = outputs["cluster_name"]
    /\ k8s.project_id = outputs["project_id"]
    /\ k8s.region = outputs["region"]

\* C9 as stated: if cluster_name, project_id or region is missing from the
\* outputs, deploy exits with 1 before configure-cluster-access starts, and
\* configure_kubectl only gets values that came from the outputs.
C9_AllThreeRequired ==
    /\ (HasReturned("outputs") /\ \E k \in OutKeys : k \notin DOMAIN outputs) =>
          /\ pc = "exited"
          /\ exit_code = 1
          /\ ~HasStarted("configure")
    /\ HasStarted("configure") => FromOutputs

\* C9 (amended): if cluster_name or project_id is missing from the outputs or
\* empty, deploy exits with 1 before configure-cluster-access starts; a
\* missing region does not abort: configure_kubectl gets cluster_name and
\* project_id from the outputs, and the region from the outputs when it is
\* there and "us-central1" when it is not.
C9_ClusterAndProjectRequired ==
    /\ (HasReturned("outputs")
           /\ \E k \in {"cluster_name", "project_id"} :
                 k \notin DOMAIN outputs \/ outputs[k] = "") =>
          /\ pc = "exited"
          /\ how = "sysexit"
          /\ exit_code = 1
          /\ ~HasStarted("configure")
          /\ LastStarted = "outputs"
    /\ HasStarted("configure") =>
          /\ "cluster_name" \in DOMAIN outputs
          /\ "project_id" \in DOMAIN outputs
          /\ k8s.cluster_name = outputs["cluster_name"]
          /\ k8s.cluster_name # ""
          /\ k8s.project_id = outputs["project_id"]
          /\ k8s.project_id # ""
          /\ k8s.region = IF "region" \in DOMAIN outputs THEN outputs["region"]
                          ELSE "us-central1"

\* configure started although the outputs hold no region
C9_Witness ==
    /\ HasStarted("configure")
    /\ "region" \notin DOMAIN outputs
    /\ k8s.region = "us-central1"

\* the outputs hold no cluster_name and deploy stopped after the outputs phase
C9_WitnessAbort ==
    /\ HasReturned("outputs")
    /\ phase_code["outputs"] = 0
    /\ "cluster_name" \notin DOMAIN outputs
    /\ "project_id" \in DOMAIN outputs
    /\ pc = "exited"

\* the targets of the markers a line contains
TargetsIn(ln) ==
    {progress_markers[i][2] :
        i \in {j \in DOMAIN progress_markers :
                  Contains(progress_markers[j][1], LowerText(ln))}}

SetMax(S) == CHOOSE x \in S : \A y \in S : y <= x

\* C10: during terraform_apply the displayed progress never decreases, and
\* after each observed line it equals the maximum of its previous value and
\* the targets of all markers contained in that line.
C10_ProgressMonotone ==
    [][/\ (pc = "apply_loop" /\ pc' \in {"apply_loop", "apply_ret"}) =>
             task_completed' >= task_completed
       /\ (pc = "apply_loop" /\ pc' = "apply_loop" /\ proc' = proc) =>
             /\ task_completed' = SetMax({task_completed} \cup TargetsIn(line'))
             /\ current_progress' = task_completed']_vars

\* a line with lower markers was observed after progress had reached 95
C10_Witness ==
    /\ pc = "apply_loop"
    /\ task_completed = 95
    /\ line = <<"GKE-Cluster", "project-setup">>

\* a mixed-case marker raised the progress
C10_WitnessCase ==
    /\ pc = "apply_loop"
    /\ task_completed = 60
    /\ line = <<"GKE-Cluster">>

\* C11: what terraform_apply returns is decided by the exit code of the
\* process alone, True exactly when it is 0, whatever lines were observed and
\* whatever progress was inferred from them; deploy_command goes on to the
\* outputs phase exactly in that case.
C11_ExitCodeDecides ==
    /\ pc = "apply_ret" =>
          /\ result["apply"] = (IF returncode = 0 THEN "True" ELSE "False")
          /\ phase_code["apply"] = returncode
    /\ HasReturned("apply") =>
          /\ result["apply"] = (IF phase_code["apply"] = 0 THEN "True" ELSE "False")
          /\ HasStarted("outputs") \/ pc = "outputs" \/ phase_code["apply"] # 0

\* terraform exited with 0 without any marker having been seen, and
\* terraform_apply returns True
C11_Witness ==
    /\ pc = "apply_ret"
    /\ returncode = 0
    /\ current_progress = 0
    /\ result["apply"] = "True"

\* terraform failed after the progress had passed every marker
C11_WitnessFailedAtFullProgress ==
    /\ pc = "apply_ret"
    /\ returncode # 0
    /\ current_progress = 95
    /\ result["apply"] = "False"

\* C12: wait_for_pods returns True in the first poll cycle in which the pods
\* are found ready, and makes no query after it; it returns False, and does
\* not raise, only when the timeout has elapsed and no poll found them ready.
C12_FirstReadyPollReturns ==
    /\ \A i \in DOMAIN poll_log :
          poll_log[i] => i = Polls /\ w_pc = "done" /\ w_result = "True"
    /\ w_result = "True" => EverReady
    /\ (w_pc = "done" /\ ~EverReady) =>
          w_result = "False" /\ Elapsed >= w_timeout
    /\ w_result = "False" => w_pc = "done" /\ ~EverReady
    /\ w_pc # "raised"

C12_Witness ==
    /\ w_pc = "done" /\ w_result = "True" /\ Polls = 2
    /\ ~poll_log[1] /\ poll_log[2]

C12_WitnessTimedOut ==
    w_pc = "done" /\ w_result = "False" /\ Polls = 2 /\ w_timeout = 20

\* seconds the queries took, once the wait ended without a ready poll (every
\* such poll is followed by one sleep)
QueryTime == Elapsed - PollInterval * Polls

\* C13 as stated: with a poll interval of 10 s, a timeout of 30 s and pods
\* that are never ready, the wait makes exactly 3 polls and returns False.
C13_ExactlyThreePolls ==
    (w_timeout = 30 /\ w_pc = "done" /\ ~EverReady) =>
        Polls = 3 /\ w_result = "False"

\* C13 amended: under the same conditions the wait makes at least 1 and at
\* most 3 polls, exactly 3 when the queries take no time, and returns False.
C13_AtMostThreePolls ==
    (w_timeout = 30 /\ w_pc = "done" /\ ~EverReady) =>
        /\ Polls \in 1 .. 3
        /\ QueryTime = 0 => Polls = 3
        /\ w_result = "False"

C13_Witness ==
    /\ w_timeout = 30 /\ w_pc = "done" /\ ~EverReady
    /\ Polls = 3 /\ QueryTime = 0 /\ w_result = "False"

C13_WitnessSlowQueries ==
    /\ w_timeout = 30 /\ w_pc = "done" /\ ~EverReady
    /\ Polls = 2 /\ QueryTime = 10 /\ w_result = "False"

\* C14: a failed query (non-zero exit, timeout, invocation error) counts as
\* "not ready yet": nothing is raised, the poll is followed by the sleep of
\* one poll interval and the loop test, and the wait ends with False only
\* once the timeout has elapsed.
C14_FailedQueryIsNotReady ==
    /\ [](w_pc # "raised")
    /\ [][(w_pc = "query" /\ w_code' # 0) =>
             (w_pc' = "sleep" /\ poll_log' = Append(poll_log, FALSE))]_vars
    /\ [][w_pc = "sleep" =>
             (w_pc' = "check" /\ now' = now + PollInterval)]_vars
    /\ [][(w_pc = "check" /\ w_pc' = "done") =>
             (Elapsed >= w_timeout /\ w_result' = "False")]_vars

C14_Witness ==
    w_pc = "query" /\ Polls = 2 /\ w_code = 1 /\ w_stdout = <<>>

\* C15 as stated: the pods are found ready exactly when every listed status
\* is "True", a successful query that lists nothing included.
C15_VacuouslyReady ==
    (w_pc \in {"sleep", "done"} /\ Polls > 0) =>
        (poll_log[Polls] <=> (w_code = 0 /\ AllTrue(Split(w_stdout))))

\* C15 amended: the pods are found ready exactly when the query succeeded,
\* listed at least one status and every listed status is "True"; a query
\* that lists nothing finds them not ready.
C15_ReadyNeedsAStatus ==
    (w_pc \in {"sleep", "done"} /\ Polls > 0) =>
        (poll_log[Polls] <=>
            /\ w_code = 0
            /\ Split(w_stdout) # <<>>
            /\ \A i \in DOMAIN Split(w_stdout) : Split(w_stdout)[i] = "True")

C15_Witness ==
    /\ w_pc = "sleep" /\ Polls = 1 /\ w_code = 0 /\ w_stdout = <<>>
    /\ ~poll_log[1]

C15_WitnessAllTrue ==
    /\ w_pc = "done" /\ Polls = 1 /\ w_code = 0
    /\ w_stdout = <<"True", " ", "True">> /\ poll_log[1]

\* C16 as stated: a deploy that deployed a workload and came to its end ran
\* the readiness wait after the workload deployment.
C16_WaitReadyPhaseRuns ==
    (/\ cmd = "deploy" /\ pc = "exited" /\ how = "return"
     /\ deploy_otel \/ deploy_microservices) =>
        w_pc # "idle"

\* C17 as stated: no failure of an external command leaves the invoking
\* phase as an exception.
C17_NoExceptionPropagates == how # "raise"

\* C18 as stated: deploy_command eventually terminates, whatever the external
\* processes do.
C18_DeployTerminates == (cmd = "deploy") ~> (pc = "exited")

NotificationsSent ==
    HasStarted("notify") \/ emails_sent > 0 \/ Executed("POST slack webhook")

\* C19 as stated: with notification targets configured, notifications are
\* dispatched however the deploy pipeline ended.
C19_NotifyWhateverTheOutcome ==
    (/\ cmd = "deploy" /\ pc = "exited" /\ HasStarted("plan")
     /\ notify_email > 0 \/ notify_slack) =>
        NotificationsSent

\* C19 amended: with notification targets configured, notifications are
\* dispatched when the deploy pipeline has got through all earlier phases, and
\* only then: a deploy that aborted at a failed phase or was declined sent
\* none.
C19_NotifyOnlyOnSuccess ==
    cmd = "deploy" =>
        /\ NotificationsSent =>
              /\ \A p \in AbortPhases : result[p] = "True"
              /\ ~MissingClusterInfo(outputs)
              /\ ~Declined(DeployPrompt)
        /\ (pc = "exited" /\ how = "return" /\ (notify_email > 0 \/ notify_slack))
              => NotificationsSent /\ emails_sent = notify_email
        /\ (pc = "exited" /\ how # "return") => ~NotificationsSent

C19_Witness ==
    /\ cmd = "deploy" /\ pc = "exited" /\ how = "sysexit" /\ exit_code = 1
    /\ notify_slack /\ notify_email > 0 /\ result["apply"] = "False"
    /\ ~NotificationsSent

C19_WitnessSuccess ==
    /\ cmd = "deploy" /\ pc = "exited" /\ how = "return"
    /\ notify_email > 0 /\ ~notify_slack /\ NotificationsSent

\* C20: a failed Slack request (a non-200 answer or an exception) does not
\* keep the e-mail notifications from being attempted and does not change the
\* outcome: the deploy goes on to its summary and returns 0.
C20_NotifyBestEffort ==
    slack_result = "False" =>
        /\ emails_sent = notify_email
        /\ pc \in {"summary", "exited"}
        /\ pc = "exited" =>
              /\ how = "return" /\ exit_code = 0
              /\ "Deployment Complete" \in messages
        /\ \A p \in AbortPhases : result[p] = "True"

C20_Witness ==
    /\ slack_result = "False" /\ notify_email > 0 /\ emails_sent = notify_email
    /\ pc = "exited" /\ how = "return" /\ exit_code = 0

\* the component at position i, a missing one counting as "0"
Padded(v, i) == IF i \in DOMAIN v THEN IntOf[v[i]] ELSE 0

\* current >= minimum as versions: the first position where they differ
\* decides, missing trailing components counting as 0
RECURSIVE SemverGEFrom(_, _, _)
SemverGEFrom(a, b, i) ==
    IF i > Len(a) /\ i > Len(b) THEN TRUE
    ELSE IF Padded(a, i) # Padded(b, i) THEN Padded(a, i) > Padded(b, i)
    ELSE SemverGEFrom(a, b, i + 1)

\* C30 as stated: compare_versions returns True exactly when current is at
\* least minimum under semantic versioning of the numeric components, a
\* missing trailing component counting as 0, and False when a component is
\* not numeric.
C30_SemanticVersionOrder ==
    cmp_result # "none" =>
        (cmp_result = "True" <=>
            /\ AllNumerals(current) /\ AllNumerals(minimum)
            /\ SemverGEFrom(current, minimum, 1))

ILogged(e) == \E i \in DOMAIN i_log : i_log[i] = e

\* C21 as stated: when a required tool is missing, or its version is below
\* the minimum or cannot be determined, init exits with code 1 before the
\* authentication step begins.
C21_PrerequisiteFailureStopsInit ==
    (/\ i_pc \notin {"idle", "call", "prereq"}
     /\ \E i \in DOMAIN table : table[i][2] # "OK") =>
        i_pc = "exited" /\ i_exit = 1 /\ ~ILogged("Step 2")

\* C22 as stated: init prints that authentication is verified, and goes on
\* to the project, only when gcloud has an active account: check_gcloud_auth
\* succeeded or a login command did.
C22_VerifiedOnlyWhenAuthenticated ==
    (ILogged("GCP authentication verified") \/ ILogged("Step 3")) => authed

\* C23 as stated: the process exit code is 130 when the user interrupted the
\* running command, and otherwise 0 or 1.
C23_ExitCodes ==
    c_pc = "exited" =>
        /\ process_code \in {0, 1, 130}
        /\ "Aborted!" \in c_out => process_code = 130
        /\ process_code = 130 <=> "Operation cancelled by user." \in c_out

\* C24 as stated: a check whose command exited 0 but whose output json.loads
\* could not parse gives the status "unknown" (an empty list for the
\* endpoints), and no exception.
C24_ParseFailureIsUnknown ==
    \A k \in s_parse_failed :
        /\ k \in DOMAIN s_status
        /\ s_status[k] =
              (IF k \in {"otel_endpoints", "micro_endpoints"} THEN "empty"
               ELSE "unknown")

StateBucketPrompt == "Delete Terraform state bucket?"

\* C25 as stated: a teardown run without --keep-state takes the keep-state
\* branch of the state cleanup; the deletion branch, with its warning and its
\* prompt, is not entered.
C25_DefaultKeepsState ==
    (cmd = "teardown" /\ ~keep_state) =>
        /\ "State Bucket Deletion" \notin messages
        /\ ~Confirmed(StateBucketPrompt) /\ ~Declined(StateBucketPrompt)
        /\ HasReturned("state_cleanup") =>
              "Keeping Terraform state bucket" \in messages

\* C26 as stated: a teardown run with auto_approve asks the user nothing, for
\* either value of keep_state.
C26_AutoApproveNeverPrompts ==
    (cmd = "teardown" /\ auto_approve) => prompts = <<>>

\* C28 as stated: teardown_command prints its success summary and returns 0
\* only in runs in which terraform destroy was executed and exited with 0.
C28_SuccessMeansDestroyed ==
    (cmd = "teardown" /\ "Teardown Completed Successfully" \in messages) =>
        Executed("terraform destroy") /\ phase_code["destroy"] = 0

\* C29: once deploy_command has changed into the Terraform directory, every
\* way it ends (return, sys.exit after a failed phase or a declined prompt,
\* an exception) leaves the process in the directory it was called in; while
\* it runs, the process is in the Terraform directory.
C29_WorkingDirectoryRestored ==
    cmd = "deploy" =>
        /\ pc = "exited" => cwd = "orig"
        /\ pc \notin {"start", "exited"} => cwd = "terraform"

C29_Witness ==
    /\ cmd = "deploy" /\ pc = "exited" /\ how = "raise" /\ cwd = "orig"
    /\ HasStarted("apply")

C29_WitnessDeclined ==
    /\ cmd = "deploy" /\ pc = "exited" /\ how = "sysexit" /\ exit_code = 0
    /\ Declined(DeployPrompt) /\ cwd = "orig"

C29_WitnessSuccess ==
    /\ cmd = "deploy" /\ pc = "exited" /\ how = "return" /\ exit_code = 0
    /\ cwd = "orig"

\* C27 as stated: whatever the process writes and however the writes and the
\* reads interleave, the process exits and terraform_apply returns.
C27_ApplyReturns == <>(o_pc = "returned" /\ t_state = "exited")

=============================================================================
